---- MODULE Spec2Model ----
(***************************************************************************)
(* Model of promu's concurrent build orchestration:                        *)
(*   - the scheduler of runCrossbuild (cmd/crossbuild.go, one job per      *)
(*     platform; cmd/crossbuild_docker.go, one job per image family) and   *)
(*     of the concurrent runBuild (cmd/build.go, one job per binary);      *)
(*   - the containerized job platformGroup.Build and the native job        *)
(*     buildBinary.                                                        *)
(* The main goroutine and every job goroutine are processes; one action is *)
(* one step between two blocking points (channel send/receive, mutex lock, *)
(* completion of an external command).                                     *)
(***************************************************************************)
EXTENDS Integers, Sequences, FiniteSets, TLC

\* ------------------------------------------------------------------ bounds
NJobs == 3          \* length of pgroups / binariesToBuild
MaxBuildNum == 2    \* largest concurrency limit explored

Jobs == 1..NJobs

\* The three schedulers of the repository that share the sem/errs scheme.
Variants == {"crossbuild", "crossbuild_docker", "build"}

VARIABLES
    variant,          \* which command runs
    dockerHost,       \* len(os.Getenv("DOCKER_HOST")) > 0  (remote daemon)
    buildNum,         \* capacity of sem
    pgPlatforms,      \* job j's platform (list): "empty" or "some", "unread"
                      \* until the dispatch loop reaches pgroups[j]
    mainpc,           \* position of the main goroutine
    next,             \* index of the next job the dispatch loop handles
    sem,              \* len(sem): number of occupied slots
    jpc,              \* position of job j's goroutine
    err,              \* value returned by job j's Build / buildBinary
    errsArr,          \* backing array of the shared slice errs, whose capacity
                      \* is the number of jobs; 0 is an unused cell and a job
                      \* id stands for that job's wrapped error
    errsLen,          \* len(errs)
    rd,               \* the len(errs) that job j's append has read
    dockerCopyMutex,  \* 0 when unlocked, else the job holding it
    ctr,              \* ctr[j]: the container created by job j exists
    nstarted,         \* number of goroutines started for job j
    spc,              \* position of the sequential code that runs before the
                      \* jobs are dispatched ("off" while the scheduler runs)
    cfg,              \* what that code reads: configuration, flags, environment
    res               \* what that code has computed so far

vars == <<variant, dockerHost, buildNum, pgPlatforms, mainpc, next, sem, jpc, err,
          errsArr, errsLen, rd, dockerCopyMutex, ctr, nstarted, spc, cfg, res>>

\* The state of the scheduler and of its jobs.
schedvars == <<variant, dockerHost, buildNum, pgPlatforms, mainpc, next, sem, jpc,
               err, errsArr, errsLen, rd, dockerCopyMutex, ctr, nstarted>>

jobvars == <<jpc, err, errsArr, errsLen, rd, dockerCopyMutex, ctr>>
cfgvars == <<variant, dockerHost, buildNum, spc, cfg, res>>

\* A platformGroup with no platform exists only in crossbuild_docker.go, whose
\* non-cgo branch appends all five family groups whatever their content.
PlatformLists ==
    IF variant = "crossbuild_docker" THEN {"empty", "some"} ELSE {"some"}

\* buildNum is positive when CROSSBUILDN is unset or holds a positive number.
Init ==
    /\ variant \in Variants
    /\ dockerHost \in (IF variant = "build" THEN {FALSE} ELSE BOOLEAN)
    /\ buildNum \in 1..MaxBuildNum
    /\ pgPlatforms = [j \in Jobs |-> "unread"]
    /\ mainpc = "dispatch"
    /\ next = 1
    /\ sem = 0
    /\ jpc = [j \in Jobs |-> "idle"]
    /\ err = [j \in Jobs |-> "none"]
    /\ errsArr = [i \in Jobs |-> 0]
    /\ errsLen = 0
    /\ rd = [j \in Jobs |-> 0]
    /\ dockerCopyMutex = 0
    /\ ctr = [j \in Jobs |-> FALSE]
    /\ nstarted = [j \in Jobs |-> 0]
    /\ spc = "off"
    /\ cfg = << >>
    /\ res = << >>

\* The scheduler before it exists: the state in which the sequential code that
\* precedes the dispatch loop runs.
SchedOff ==
    /\ variant = "crossbuild"
    /\ dockerHost = FALSE
    /\ buildNum = 1
    /\ pgPlatforms = [j \in Jobs |-> "unread"]
    /\ mainpc = "setup"
    /\ next = 1
    /\ sem = 0
    /\ jpc = [j \in Jobs |-> "idle"]
    /\ err = [j \in Jobs |-> "none"]
    /\ errsArr = [i \in Jobs |-> 0]
    /\ errsLen = 0
    /\ rd = [j \in Jobs |-> 0]
    /\ dockerCopyMutex = 0
    /\ ctr = [j \in Jobs |-> FALSE]
    /\ nstarted = [j \in Jobs |-> 0]

\* The slice errs as every goroutine sees it.
errs == [i \in 1..errsLen |-> errsArr[i]]

\* ------------------------------------------------------- the main goroutine

\* Faulty variant: the goroutine is started without acquiring a slot first.
DispatchNoGate ==
    /\ mainpc = "dispatch"
    /\ next <= NJobs
    /\ sem' = sem + 1
    /\ jpc' = [jpc EXCEPT ![next] = "spawned"]
    /\ nstarted' = [nstarted EXCEPT ![next] = @ + 1]
    /\ next' = next + 1
    /\ \E p \in PlatformLists : pgPlatforms' = [pgPlatforms EXCEPT ![next] = p]
    /\ UNCHANGED <<cfgvars, mainpc, err, errsArr, errsLen, rd, dockerCopyMutex, ctr>>

\* for _, pg := range pgroups { sem <- struct{}{}; go func(pg){...}(pg) }
\* The send blocks while the channel is full.
Dispatch ==
    /\ mainpc = "dispatch"
    /\ next <= NJobs
    /\ sem < buildNum
    /\ sem' = sem + 1
    /\ jpc' = [jpc EXCEPT ![next] = "spawned"]
    /\ nstarted' = [nstarted EXCEPT ![next] = @ + 1]
    /\ next' = next + 1
    /\ \E p \in PlatformLists : pgPlatforms' = [pgPlatforms EXCEPT ![next] = p]
    /\ UNCHANGED <<cfgvars, mainpc, err, errsArr, errsLen, rd, dockerCopyMutex, ctr>>

\* Faulty variant: the loop is left as soon as an error has been recorded.
DispatchEndAbortOnError ==
    /\ mainpc = "dispatch"
    /\ next > NJobs \/ Len(errs) > 0
    /\ mainpc' = "wait"
    /\ UNCHANGED <<cfgvars, pgPlatforms, next, sem, nstarted, jobvars>>

\* The range loop is exhausted.
DispatchEnd ==
    /\ mainpc = "dispatch"
    /\ next > NJobs
    /\ mainpc' = "wait"
    /\ UNCHANGED <<cfgvars, pgPlatforms, next, sem, nstarted, jobvars>>

\* Faulty variant: the loop ends as soon as one slot is free.
WaitForFreeSlot ==
    /\ mainpc = "wait"
    /\ IF sem < buildNum THEN mainpc' = "check" ELSE mainpc' = mainpc
    /\ UNCHANGED <<cfgvars, pgPlatforms, next, sem, nstarted, jobvars>>

\* for { if len(sem) == 0 { break }; time.Sleep(2 * time.Second) }
WaitForBuilds ==
    /\ mainpc = "wait"
    /\ IF sem = 0 THEN mainpc' = "check" ELSE mainpc' = mainpc
    /\ UNCHANGED <<cfgvars, pgPlatforms, next, sem, nstarted, jobvars>>

\* Faulty variant: a single error is not reported.
CheckErrsOffByOne ==
    /\ mainpc = "check"
    /\ mainpc' = IF Len(errs) > 1 THEN "fatal" ELSE "success"
    /\ UNCHANGED <<cfgvars, pgPlatforms, next, sem, nstarted, jobvars>>

\* if len(errs) > 0 { ...; fatal(errors.New("Crossbuild failed")) }
CheckErrs ==
    /\ mainpc = "check"
    /\ mainpc' = IF Len(errs) > 0 THEN "fatal" ELSE "success"
    /\ UNCHANGED <<cfgvars, pgPlatforms, next, sem, nstarted, jobvars>>

\* --------------------------------------------------------- a job goroutine

\* os.Exit (fatal, or return from main) and an unrecovered panic end every
\* goroutine of the process.
Exited == {"success", "fatal", "crashed"}
Alive == mainpc \notin Exited

\* Positions at which job j's goroutine exists and has not finished.
RunningPcs == {"spawned", "gobuild", "create", "copyin", "start", "lock",
               "copyout", "rm", "returned", "append", "release"}
Running == {j \in Jobs : jpc[j] \in RunningPcs}

\* Build returns e to the goroutine's closure.
Return(j, e) ==
    /\ jpc' = [jpc EXCEPT ![j] = "returned"]
    /\ err' = [err EXCEPT ![j] = e]

Goto(j, pc) ==
    /\ jpc' = [jpc EXCEPT ![j] = pc]
    /\ err' = err

\* The goroutine starts and calls Build (buildBinary in runBuild):
\* empty platform => return nil; os.Getwd may fail; then docker create runs.
JobEntry(j) ==
    /\ jpc[j] = "spawned"
    /\ IF variant = "build"
         THEN Goto(j, "gobuild")
         ELSE IF pgPlatforms[j] = "empty"
                THEN Return(j, "nil")
                ELSE \E ok \in BOOLEAN :
                        IF ok THEN Goto(j, "create") ELSE Return(j, "err")
    /\ UNCHANGED <<cfgvars, pgPlatforms, mainpc, next, sem, nstarted, errsArr, errsLen, rd, dockerCopyMutex, ctr>>

\* sh.RunCommandWithEnv("go", env, params...) returns.
GoBuild(j) ==
    /\ jpc[j] = "gobuild"
    /\ \E ok \in BOOLEAN : Return(j, IF ok THEN "nil" ELSE "err")
    /\ UNCHANGED <<cfgvars, pgPlatforms, mainpc, next, sem, nstarted, errsArr, errsLen, rd, dockerCopyMutex, ctr>>

\* docker create -t --name ctrName ... returns; on success the job lists the
\* working directory (ioutil.ReadDir), and its next command is the first copy
\* into the container with a remote daemon, docker start with a local one.
DockerCreate(j) ==
    /\ jpc[j] = "create"
    /\ \E created, listed \in BOOLEAN :
          /\ ctr' = [ctr EXCEPT ![j] = created]
          /\ IF created /\ listed
               THEN Goto(j, IF dockerHost THEN "copyin" ELSE "start")
               ELSE Return(j, "err")
    /\ UNCHANGED <<cfgvars, pgPlatforms, mainpc, next, sem, nstarted, errsArr, errsLen, rd, dockerCopyMutex>>

\* Remote daemon only: the FILES loop (docker cp src dst for every entry but
\* the excluded ones) and then docker cp $GOPATH/pkg/ ctrName:/go/pkg/ have
\* run up to the first failing copy, which returns its error.
DockerCpIn(j) ==
    /\ jpc[j] = "copyin"
    /\ \E ok \in BOOLEAN :
          IF ok THEN Goto(j, "start") ELSE Return(j, "err")
    /\ UNCHANGED <<cfgvars, pgPlatforms, mainpc, next, sem, nstarted, errsArr, errsLen, rd, dockerCopyMutex, ctr>>

\* crossbuild.go copies out always, crossbuild_docker.go only when remote.
CopiesOut == variant = "crossbuild" \/ dockerHost

\* Faulty variant: the container runs inside the copy critical section.
DockerStartUnderMutex(j) ==
    /\ jpc[j] = "start"
    /\ dockerCopyMutex = 0
    /\ \E ok \in BOOLEAN :
          IF ok THEN Goto(j, IF CopiesOut THEN "lock" ELSE "rm")
                ELSE Return(j, "err")
    /\ UNCHANGED <<cfgvars, pgPlatforms, mainpc, next, sem, nstarted, errsArr, errsLen, rd, dockerCopyMutex, ctr>>

\* docker start -a ctrName returns.
DockerStart(j) ==
    /\ jpc[j] = "start"
    /\ \E ok \in BOOLEAN :
          IF ok THEN Goto(j, IF CopiesOut THEN "lock" ELSE "rm")
                ELSE Return(j, "err")
    /\ UNCHANGED <<cfgvars, pgPlatforms, mainpc, next, sem, nstarted, errsArr, errsLen, rd, dockerCopyMutex, ctr>>

\* Faulty variant: the copy-out is entered without waiting for the mutex.
MutexLockNoWait(j) ==
    /\ jpc[j] = "lock"
    /\ dockerCopyMutex' = j
    /\ Goto(j, "copyout")
    /\ UNCHANGED <<cfgvars, pgPlatforms, mainpc, next, sem, nstarted, errsArr, errsLen, rd, ctr>>

\* dockerCopyMutex.Lock()
MutexLock(j) ==
    /\ jpc[j] = "lock"
    /\ dockerCopyMutex = 0
    /\ dockerCopyMutex' = j
    /\ Goto(j, "copyout")
    /\ UNCHANGED <<cfgvars, pgPlatforms, mainpc, next, sem, nstarted, errsArr, errsLen, rd, ctr>>

\* Faulty variant: Unlock is not deferred and is skipped when the copy fails.
DockerCpOutNoDefer(j) ==
    /\ jpc[j] = "copyout"
    /\ \E ok \in BOOLEAN :
          IF ok THEN /\ Goto(j, "rm")
                     /\ dockerCopyMutex' = 0
                ELSE /\ Return(j, "err")
                     /\ dockerCopyMutex' = dockerCopyMutex
    /\ UNCHANGED <<cfgvars, pgPlatforms, mainpc, next, sem, nstarted, errsArr, errsLen, rd, ctr>>

\* docker cp -a ctrName:/app/.build/. cwd/.build returns; the deferred
\* dockerCopyMutex.Unlock() runs on the way out of the closure.
DockerCpOut(j) ==
    /\ jpc[j] = "copyout"
    /\ dockerCopyMutex' = 0
    /\ \E ok \in BOOLEAN :
          IF ok THEN Goto(j, "rm") ELSE Return(j, "err")
    /\ UNCHANGED <<cfgvars, pgPlatforms, mainpc, next, sem, nstarted, errsArr, errsLen, rd, ctr>>

\* return sh.RunCommand("docker", "rm", "-f", ctrName)
DockerRm(j) ==
    /\ jpc[j] = "rm"
    /\ \E ok \in BOOLEAN :
          IF ok THEN /\ Return(j, "nil")
                     /\ ctr' = [ctr EXCEPT ![j] = FALSE]
                ELSE /\ Return(j, "err")
                     /\ ctr' = ctr
    /\ UNCHANGED <<cfgvars, pgPlatforms, mainpc, next, sem, nstarted, errsArr, errsLen, rd, dockerCopyMutex>>

\* if err := pg.Build(repoPath); err != nil { errs = append(errs, ...) }
\* The append is not protected: it first reads the slice header ...
AfterBuild(j) ==
    /\ jpc[j] = "returned"
    /\ IF err[j] = "err"
         THEN /\ rd' = [rd EXCEPT ![j] = errsLen]
              /\ Goto(j, "append")
         ELSE /\ rd' = rd
              /\ Goto(j, "release")
    /\ UNCHANGED <<cfgvars, pgPlatforms, mainpc, next, sem, nstarted, errsArr, errsLen, dockerCopyMutex, ctr>>

\* ... and later stores the element behind the length it read, and the new
\* header.
AppendErr(j) ==
    /\ jpc[j] = "append"
    /\ errsArr' = [errsArr EXCEPT ![rd[j] + 1] = j]
    /\ errsLen' = rd[j] + 1
    /\ rd' = [rd EXCEPT ![j] = 0]
    /\ Goto(j, "release")
    /\ UNCHANGED <<cfgvars, pgPlatforms, mainpc, next, sem, nstarted, dockerCopyMutex, ctr>>

\* <-sem
Release(j) ==
    /\ jpc[j] = "release"
    /\ sem > 0
    /\ sem' = sem - 1
    /\ Goto(j, "done")
    /\ UNCHANGED <<cfgvars, pgPlatforms, mainpc, next, nstarted, errsArr, errsLen, rd, dockerCopyMutex, ctr>>

\* A panic inside the goroutine: the closure has no deferred recover, so the
\* runtime ends the whole process.
JobPanic(j) ==
    /\ Alive
    /\ jpc[j] \in RunningPcs \ {"lock", "release"}
    /\ jpc' = [jpc EXCEPT ![j] = "panicked"]
    /\ mainpc' = "crashed"
    /\ UNCHANGED <<cfgvars, pgPlatforms, next, sem, nstarted, err, errsArr, errsLen, rd, dockerCopyMutex, ctr>>

JobStep(j) ==
    \/ JobEntry(j)
    \/ GoBuild(j)
    \/ DockerCreate(j)
    \/ DockerCpIn(j)
    \/ DockerStart(j)
    \/ MutexLock(j)
    \/ DockerCpOut(j)
    \/ DockerRm(j)
    \/ AfterBuild(j)
    \/ AppendErr(j)
    \/ Release(j)

Job(j) == Alive /\ JobStep(j)

Main ==
    \/ Dispatch
    \/ DispatchEnd
    \/ WaitForBuilds
    \/ CheckErrs

Next ==
    \/ Main
    \/ \E j \in Jobs : Job(j)

Spec == Init /\ [][Next]_vars

\* runCrossbuild of cmd/crossbuild.go under fair scheduling: the Go scheduler
\* keeps running some runnable goroutine, and every external command is
\* assumed to return.
CrossbuildInit == Init /\ variant = "crossbuild"

FairSpec == CrossbuildInit /\ [][Next]_vars /\ WF_vars(Next)

\* The same program when a job may panic.
PanicNext ==
    \/ Next
    \/ \E j \in Jobs : JobPanic(j)

SpecPanic == Init /\ [][PanicNext]_vars

\* ------------------------------------------------ the concurrency limit

MaxEnvLen == 2      \* longest value of CROSSBUILDN explored
MaxCPU == 3         \* largest runtime.NumCPU() explored

\* Strings are sequences of characters.
Digits == {"0", "1", "2"}
EnvChars == Digits \cup {"-", "+", "x"}

StringsUpTo(chars, n) == UNION {[1..k -> chars] : k \in 0..n}

DigitVal(c) == CASE c = "0" -> 0 [] c = "1" -> 1 [] c = "2" -> 2

RECURSIVE DecimalVal(_)
DecimalVal(ds) ==
    IF ds = << >> THEN 0
    ELSE 10 * DecimalVal(SubSeq(ds, 1, Len(ds) - 1)) + DigitVal(ds[Len(ds)])

\* strconv.Atoi with the error dropped (buildNum, _ = strconv.Atoi(...)):
\* an optional sign followed by at least one digit, anything else yields 0.
Atoi(s) ==
    LET signed == s # << >> /\ s[1] \in {"-", "+"}
        body == IF signed THEN Tail(s) ELSE s
    IN  IF body = << >> \/ \E i \in 1..Len(body) : body[i] \notin Digits
          THEN 0
          ELSE IF signed /\ s[1] = "-" THEN 0 - DecimalVal(body)
                                       ELSE DecimalVal(body)

Max(a, b) == IF a >= b THEN a ELSE b

\* var buildNum int; if len(os.Getenv("CROSSBUILDN")) > 0 { Atoi };
\* if buildNum == 0 { buildNum = int(math.Max(1, float64(runtime.NumCPU())-1)) }
BuildNum(env, ncpu) ==
    LET n == IF Len(env) > 0 THEN Atoi(env) ELSE 0
    IN  IF n = 0 THEN Max(1, ncpu - 1) ELSE n

BuildNumInit ==
    /\ SchedOff
    /\ spc = "buildnum"
    /\ cfg \in [CROSSBUILDN : StringsUpTo(EnvChars, MaxEnvLen), NumCPU : 1..MaxCPU]
    /\ res = [buildNum |-> 0]

\* crossbuild.go:242-252 (build.go:718-728)
ReadCrossbuildN ==
    /\ spc = "buildnum"
    /\ res' = [buildNum |-> BuildNum(cfg.CROSSBUILDN, cfg.NumCPU)]
    /\ spc' = "makesem"
    /\ UNCHANGED <<schedvars, cfg>>

\* sem := make(chan struct{}, buildNum): a negative size panics (makechan:
\* size out of range); otherwise the dispatch loop is reached.
MakeSem ==
    /\ spc = "makesem"
    /\ spc' = IF res.buildNum < 0 THEN "panic" ELSE "dispatch"
    /\ UNCHANGED <<schedvars, cfg, res>>

BuildNumNext ==
    \/ ReadCrossbuildN
    \/ MakeSem

SpecBuildNum == BuildNumInit /\ [][BuildNumNext]_vars

\* ------------------------------------------------ the platform classifier

MaxPlatforms == 2   \* longest list of configured platforms explored

\* The canonical platform lists of the exact-match classifier.
defaultMainPlatforms ==
    <<"linux/amd64", "linux/386", "darwin/amd64", "darwin/386",
      "windows/amd64", "windows/386", "freebsd/amd64", "freebsd/386",
      "openbsd/amd64", "openbsd/386", "netbsd/amd64", "netbsd/386",
      "dragonfly/amd64">>

defaultARMPlatforms ==
    <<"linux/armv5", "linux/armv6", "linux/armv7", "linux/arm64",
      "freebsd/armv6", "freebsd/armv7", "openbsd/armv7", "netbsd/armv6",
      "netbsd/armv7">>

defaultPowerPCPlatforms ==
    <<"aix/ppc64", "linux/ppc64", "linux/ppc64le">>

defaultMIPSPlatforms ==
    <<"linux/mips", "linux/mipsle", "linux/mips64", "linux/mips64le">>

defaultS390Platforms ==
    <<"linux/s390x">>

armPlatformsAliases ==
    [a \in {"linux/arm", "freebsd/arm", "openbsd/arm", "netbsd/arm"} |->
        CASE a = "linux/arm" -> <<"linux/armv5", "linux/armv6", "linux/armv7">>
          [] a = "freebsd/arm" -> <<"freebsd/armv6", "freebsd/armv7">>
          [] a = "openbsd/arm" -> <<"openbsd/armv7">>
          [] a = "netbsd/arm" -> <<"netbsd/armv6", "netbsd/armv7">>]

\* The canonical platform list of the regexp classifier, in the order of the
\* source, which is ascending string order.
defaultPlatforms ==
    <<"aix/ppc64", "darwin/amd64", "darwin/arm64", "dragonfly/amd64",
      "freebsd/386", "freebsd/amd64", "freebsd/arm64", "freebsd/armv6",
      "freebsd/armv7", "illumos/amd64", "linux/386", "linux/amd64",
      "linux/arm64", "linux/armv5", "linux/armv6", "linux/armv7",
      "linux/mips", "linux/mips64", "linux/mips64le", "linux/mipsle",
      "linux/ppc64", "linux/ppc64le", "linux/riscv64", "linux/s390x",
      "netbsd/386", "netbsd/amd64", "netbsd/arm64", "netbsd/armv6",
      "netbsd/armv7", "openbsd/386", "openbsd/amd64", "openbsd/arm64",
      "openbsd/armv7", "windows/386", "windows/amd64", "windows/arm64">>

\* The values of --platforms / crossbuild.platforms explored.
PlatformArgs ==
    {"linux/amd64", "linux/arm", "linux/arm64", "linux/armv5",
     "linux/ppc64", "linux/mips", "linux/s390x", "windows", "bogus/arch",
     "freebsd/arm", "openbsd/arm", "netbsd/arm"}

\* A string as the sequence of its characters.
Chars(s) ==
    CASE s = "linux/amd64" -> <<"l", "i", "n", "u", "x", "/", "a", "m", "d", "6", "4">>
      [] s = "linux/386" -> <<"l", "i", "n", "u", "x", "/", "3", "8", "6">>
      [] s = "darwin/amd64" -> <<"d", "a", "r", "w", "i", "n", "/", "a", "m", "d", "6", "4">>
      [] s = "darwin/386" -> <<"d", "a", "r", "w", "i", "n", "/", "3", "8", "6">>
      [] s = "windows/amd64" -> <<"w", "i", "n", "d", "o", "w", "s", "/", "a", "m", "d", "6", "4">>
      [] s = "windows/386" -> <<"w", "i", "n", "d", "o", "w", "s", "/", "3", "8", "6">>
      [] s = "freebsd/amd64" -> <<"f", "r", "e", "e", "b", "s", "d", "/", "a", "m", "d", "6", "4">>
      [] s = "freebsd/386" -> <<"f", "r", "e", "e", "b", "s", "d", "/", "3", "8", "6">>
      [] s = "openbsd/amd64" -> <<"o", "p", "e", "n", "b", "s", "d", "/", "a", "m", "d", "6", "4">>
      [] s = "openbsd/386" -> <<"o", "p", "e", "n", "b", "s", "d", "/", "3", "8", "6">>
      [] s = "netbsd/amd64" -> <<"n", "e", "t", "b", "s", "d", "/", "a", "m", "d", "6", "4">>
      [] s = "netbsd/386" -> <<"n", "e", "t", "b", "s", "d", "/", "3", "8", "6">>
      [] s = "dragonfly/amd64" -> <<"d", "r", "a", "g", "o", "n", "f", "l", "y", "/", "a", "m", "d", "6", "4">>
      [] s = "linux/armv5" -> <<"l", "i", "n", "u", "x", "/", "a", "r", "m", "v", "5">>
      [] s = "linux/armv6" -> <<"l", "i", "n", "u", "x", "/", "a", "r", "m", "v", "6">>
      [] s = "linux/armv7" -> <<"l", "i", "n", "u", "x", "/", "a", "r", "m", "v", "7">>
      [] s = "linux/arm64" -> <<"l", "i", "n", "u", "x", "/", "a", "r", "m", "6", "4">>
      [] s = "freebsd/armv6" -> <<"f", "r", "e", "e", "b", "s", "d", "/", "a", "r", "m", "v", "6">>
      [] s = "freebsd/armv7" -> <<"f", "r", "e", "e", "b", "s", "d", "/", "a", "r", "m", "v", "7">>
      [] s = "openbsd/armv7" -> <<"o", "p", "e", "n", "b", "s", "d", "/", "a", "r", "m", "v", "7">>
      [] s = "netbsd/armv6" -> <<"n", "e", "t", "b", "s", "d", "/", "a", "r", "m", "v", "6">>
      [] s = "netbsd/armv7" -> <<"n", "e", "t", "b", "s", "d", "/", "a", "r", "m", "v", "7">>
      [] s = "aix/ppc64" -> <<"a", "i", "x", "/", "p", "p", "c", "6", "4">>
      [] s = "linux/ppc64" -> <<"l", "i", "n", "u", "x", "/", "p", "p", "c", "6", "4">>
      [] s = "linux/ppc64le" -> <<"l", "i", "n", "u", "x", "/", "p", "p", "c", "6", "4", "l", "e">>
      [] s = "linux/mips" -> <<"l", "i", "n", "u", "x", "/", "m", "i", "p", "s">>
      [] s = "linux/mipsle" -> <<"l", "i", "n", "u", "x", "/", "m", "i", "p", "s", "l", "e">>
      [] s = "linux/mips64" -> <<"l", "i", "n", "u", "x", "/", "m", "i", "p", "s", "6", "4">>
      [] s = "linux/mips64le" -> <<"l", "i", "n", "u", "x", "/", "m", "i", "p", "s", "6", "4", "l", "e">>
      [] s = "linux/s390x" -> <<"l", "i", "n", "u", "x", "/", "s", "3", "9", "0", "x">>
      [] s = "darwin/arm64" -> <<"d", "a", "r", "w", "i", "n", "/", "a", "r", "m", "6", "4">>
      [] s = "freebsd/arm64" -> <<"f", "r", "e", "e", "b", "s", "d", "/", "a", "r", "m", "6", "4">>
      [] s = "illumos/amd64" -> <<"i", "l", "l", "u", "m", "o", "s", "/", "a", "m", "d", "6", "4">>
      [] s = "linux/riscv64" -> <<"l", "i", "n", "u", "x", "/", "r", "i", "s", "c", "v", "6", "4">>
      [] s = "netbsd/arm64" -> <<"n", "e", "t", "b", "s", "d", "/", "a", "r", "m", "6", "4">>
      [] s = "openbsd/arm64" -> <<"o", "p", "e", "n", "b", "s", "d", "/", "a", "r", "m", "6", "4">>
      [] s = "windows/arm64" -> <<"w", "i", "n", "d", "o", "w", "s", "/", "a", "r", "m", "6", "4">>
      [] s = "linux/arm" -> <<"l", "i", "n", "u", "x", "/", "a", "r", "m">>
      [] s = "freebsd/arm" -> <<"f", "r", "e", "e", "b", "s", "d", "/", "a", "r", "m">>
      [] s = "openbsd/arm" -> <<"o", "p", "e", "n", "b", "s", "d", "/", "a", "r", "m">>
      [] s = "netbsd/arm" -> <<"n", "e", "t", "b", "s", "d", "/", "a", "r", "m">>
      [] s = "windows" -> <<"w", "i", "n", "d", "o", "w", "s">>
      [] s = "bogus/arch" -> <<"b", "o", "g", "u", "s", "/", "a", "r", "c", "h">>

\* The byte value of a character, which orders strings in sort.Strings.
CharCode(c) ==
    CASE c = "-" -> 45
      [] c = "/" -> 47
      [] c = "0" -> 48
      [] c = "3" -> 51
      [] c = "4" -> 52
      [] c = "5" -> 53
      [] c = "6" -> 54
      [] c = "7" -> 55
      [] c = "8" -> 56
      [] c = "9" -> 57
      [] c = "a" -> 97
      [] c = "b" -> 98
      [] c = "c" -> 99
      [] c = "d" -> 100
      [] c = "e" -> 101
      [] c = "f" -> 102
      [] c = "g" -> 103
      [] c = "h" -> 104
      [] c = "i" -> 105
      [] c = "l" -> 108
      [] c = "m" -> 109
      [] c = "n" -> 110
      [] c = "o" -> 111
      [] c = "p" -> 112
      [] c = "r" -> 114
      [] c = "s" -> 115
      [] c = "t" -> 116
      [] c = "u" -> 117
      [] c = "v" -> 118
      [] c = "w" -> 119
      [] c = "x" -> 120
      [] c = "y" -> 121

GoVersions == {"1.15", "1.16"}

\* config.Repository.Path as its characters: empty, whitespace only, and a
\* path surrounded by spaces.
RepoPaths == {<< >>, <<" ", "\t">>, <<" ", "p", " ">>}

dockerBuilderImageName == "quay.io/prometheus/golang-builder"

\* fmt.Sprintf("%s:%s-<tag>", dockerBuilderImageName, goVersion), kept as its
\* three components.
BuilderImage(goVersion, tag) == <<dockerBuilderImageName, goVersion, tag>>

IsSpace(c) == c \in {" ", "\t", "\n"}

RECURSIVE TrimLeft(_)
TrimLeft(s) == IF s # << >> /\ IsSpace(Head(s)) THEN TrimLeft(Tail(s)) ELSE s

RECURSIVE TrimRight(_)
TrimRight(s) ==
    IF s # << >> /\ IsSpace(s[Len(s)]) THEN TrimRight(SubSeq(s, 1, Len(s) - 1))
    ELSE s

TrimSpace(s) == TrimRight(TrimLeft(s))

stringInSlice(needle, haystack) ==
    \E i \in 1..Len(haystack) : haystack[i] = needle

stringInMapKeys(needle, haystack) == needle \in DOMAIN haystack

\* strings.ReplaceAll(platform, "/", "-") on the characters of platform.
ReplaceSlash(s) == [i \in 1..Len(s) |-> IF s[i] = "/" THEN "-" ELSE s[i]]

\* <prefix> + strings.ReplaceAll(platform, "/", "-")
GroupName(prefix, platform) == prefix \o ReplaceSlash(Chars(platform))

NoPlatforms ==
    [mainPlatforms |-> << >>, armPlatforms |-> << >>,
     powerPCPlatforms |-> << >>, mipsPlatforms |-> << >>,
     s390xPlatforms |-> << >>, allPlatforms |-> << >>,
     unknownPlatforms |-> << >>]

\* The switch of the exact-match classifier with the alias case left out.
ClassifyPlatformNoAlias(c, platform) ==
    IF stringInSlice(platform, defaultMainPlatforms)
      THEN [c EXCEPT !.mainPlatforms = Append(@, platform)]
    ELSE IF stringInSlice(platform, defaultARMPlatforms)
      THEN [c EXCEPT !.armPlatforms = Append(@, platform)]
    ELSE IF stringInSlice(platform, defaultPowerPCPlatforms)
      THEN [c EXCEPT !.powerPCPlatforms = Append(@, platform)]
    ELSE IF stringInSlice(platform, defaultMIPSPlatforms)
      THEN [c EXCEPT !.mipsPlatforms = Append(@, platform)]
    ELSE IF stringInSlice(platform, defaultS390Platforms)
      THEN [c EXCEPT !.s390xPlatforms = Append(@, platform)]
    ELSE [c EXCEPT !.unknownPlatforms = Append(@, platform)]

\* The switch of the exact-match classifier: the first case that holds.
ClassifyPlatform(c, platform) ==
    IF stringInSlice(platform, defaultMainPlatforms)
      THEN [c EXCEPT !.mainPlatforms = Append(@, platform)]
    ELSE IF stringInSlice(platform, defaultARMPlatforms)
      THEN [c EXCEPT !.armPlatforms = Append(@, platform)]
    ELSE IF stringInSlice(platform, defaultPowerPCPlatforms)
      THEN [c EXCEPT !.powerPCPlatforms = Append(@, platform)]
    ELSE IF stringInSlice(platform, defaultMIPSPlatforms)
      THEN [c EXCEPT !.mipsPlatforms = Append(@, platform)]
    ELSE IF stringInSlice(platform, defaultS390Platforms)
      THEN [c EXCEPT !.s390xPlatforms = Append(@, platform)]
    ELSE IF stringInMapKeys(platform, armPlatformsAliases)
      THEN [c EXCEPT !.armPlatforms = @ \o armPlatformsAliases[platform]]
    ELSE [c EXCEPT !.unknownPlatforms = Append(@, platform)]

\* for _, platform := range platforms { switch ... }
RECURSIVE ClassifyExact(_, _)
ClassifyExact(c, platforms) ==
    IF platforms = << >> THEN c
    ELSE ClassifyExact(ClassifyPlatform(c, Head(platforms)), Tail(platforms))

\* Whether needle occurs in hay, both as character sequences.
Contains(hay, needle) ==
    \E i \in 0..(Len(hay) - Len(needle)) :
        SubSeq(hay, i + 1, i + Len(needle)) = needle

\* The entries of haystack the pattern matches, in the order of haystack.
\* The patterns explored are literals, which match where they occur.
inSliceRE(pattern, haystack) ==
    SelectSeq(haystack, LAMBDA h : Contains(Chars(h), Chars(pattern)))

\* Byte-wise string order, as sort.Strings compares.
RECURSIVE StrLess(_, _)
StrLess(a, b) ==
    IF b = << >> THEN FALSE
    ELSE IF a = << >> THEN TRUE
    ELSE IF CharCode(Head(a)) # CharCode(Head(b))
      THEN CharCode(Head(a)) < CharCode(Head(b))
    ELSE StrLess(Tail(a), Tail(b))

RECURSIVE SortStrings(_)
SortStrings(list) ==
    IF list = << >> THEN << >>
    ELSE LET x == Head(list)
             sorted == SortStrings(Tail(list))
             k == Cardinality({i \in 1..Len(sorted) :
                                  StrLess(Chars(sorted[i]), Chars(x))})
         IN  SubSeq(sorted, 1, k) \o <<x>> \o SubSeq(sorted, k + 1, Len(sorted))

\* The list without its repeated entries, first occurrences kept in order.
RECURSIVE FirstOccurrences(_, _)
FirstOccurrences(list, strs) ==
    IF strs = << >> THEN list
    ELSE FirstOccurrences(IF stringInSlice(Head(strs), list) THEN list
                          ELSE Append(list, Head(strs)),
                          Tail(strs))

\* removeDuplicates with the sort left out.
removeDuplicatesUnsorted(strs) == FirstOccurrences(<< >>, strs)

\* removeDuplicates with the map of seen keys left out: a sort only.
removeDuplicatesSortOnly(strs) == SortStrings(strs)

removeDuplicates(strs) == SortStrings(FirstOccurrences(<< >>, strs))

\* for _, platform := range platforms { inSliceRE ... }; removeDuplicates
RECURSIVE MatchPatterns(_, _)
MatchPatterns(c, platforms) ==
    IF platforms = << >> THEN c
    ELSE LET filteredPlatforms == inSliceRE(Head(platforms), defaultPlatforms)
         IN  MatchPatterns(
                 IF Len(filteredPlatforms) > 0
                   THEN [c EXCEPT !.allPlatforms = @ \o filteredPlatforms]
                   ELSE [c EXCEPT !.unknownPlatforms = Append(@, Head(platforms))],
                 Tail(platforms))

ClassifyRE(platforms) ==
    LET c == MatchPatterns(NoPlatforms, platforms)
    IN  [c EXCEPT !.allPlatforms = removeDuplicates(@)]

\* One platformGroup{name, image, platform} per platform of a family.
FamilyGroups(prefix, image, platforms) ==
    [i \in 1..Len(platforms) |->
        [Name |-> GroupName(prefix, platforms[i]),
         DockerImage |-> image,
         Platform |-> platforms[i]]]

\* The images pulled for the families that are not empty.
FamilyPull(image, platforms) == IF Len(platforms) > 0 THEN <<image>> ELSE << >>

\* The groups of the exact-match classifier with the family images used
\* whatever the cgo setting.
PlatformGroupsFamilyAlways(c, cgo, goVersion) ==
    FamilyGroups(<<"b", "a", "s", "e", "-">>, BuilderImage(goVersion, "main"),
                 c.mainPlatforms)
    \o FamilyGroups(<<"a", "r", "m", "-">>, BuilderImage(goVersion, "arm"),
                    c.armPlatforms)
    \o FamilyGroups(<<"p", "o", "w", "e", "r", "p", "c", "-">>,
                    BuilderImage(goVersion, "powerpc"), c.powerPCPlatforms)
    \o FamilyGroups(<<"m", "i", "p", "s", "-">>,
                    BuilderImage(goVersion, "mips"), c.mipsPlatforms)
    \o FamilyGroups(<<"s", "3", "9", "0", "x", "-">>,
                    BuilderImage(goVersion, "s390x"), c.s390xPlatforms)

\* var pgroups []platformGroup of the exact-match classifier.
PlatformGroups(c, cgo, goVersion) ==
    IF ~cgo
      THEN FamilyGroups(<<"b", "a", "s", "e", "-">>,
                        BuilderImage(goVersion, "base"),
                        c.mainPlatforms \o c.armPlatforms \o c.powerPCPlatforms
                        \o c.mipsPlatforms \o c.s390xPlatforms)
      ELSE FamilyGroups(<<"b", "a", "s", "e", "-">>,
                        BuilderImage(goVersion, "main"), c.mainPlatforms)
           \o FamilyGroups(<<"a", "r", "m", "-">>,
                           BuilderImage(goVersion, "arm"), c.armPlatforms)
           \o FamilyGroups(<<"p", "o", "w", "e", "r", "p", "c", "-">>,
                           BuilderImage(goVersion, "powerpc"),
                           c.powerPCPlatforms)
           \o FamilyGroups(<<"m", "i", "p", "s", "-">>,
                           BuilderImage(goVersion, "mips"), c.mipsPlatforms)
           \o FamilyGroups(<<"s", "3", "9", "0", "x", "-">>,
                           BuilderImage(goVersion, "s390x"), c.s390xPlatforms)

\* The docker pull calls of the exact-match classifier, in order.
PlatformPulls(c, cgo, goVersion) ==
    IF ~cgo THEN <<BuilderImage(goVersion, "base")>>
    ELSE FamilyPull(BuilderImage(goVersion, "main"), c.mainPlatforms)
         \o FamilyPull(BuilderImage(goVersion, "arm"), c.armPlatforms)
         \o FamilyPull(BuilderImage(goVersion, "powerpc"), c.powerPCPlatforms)
         \o FamilyPull(BuilderImage(goVersion, "mips"), c.mipsPlatforms)
         \o FamilyPull(BuilderImage(goVersion, "s390x"), c.s390xPlatforms)

\* pg := &platformGroup{"base" | "main", image, allPlatforms} of the regexp
\* classifier: one group that carries the whole platform list.
PlatformGroupRE(c, cgo, goVersion) ==
    IF ~cgo
      THEN <<[Name |-> <<"b", "a", "s", "e">>,
              DockerImage |-> BuilderImage(goVersion, "base"),
              Platforms |-> c.allPlatforms]>>
      ELSE <<[Name |-> <<"m", "a", "i", "n">>,
              DockerImage |-> BuilderImage(goVersion, "main"),
              Platforms |-> c.allPlatforms]>>

Classifiers == {"exact", "regexp"}

\* The state of runCrossbuild before its first statement.
CrossbuildSetupInit ==
    /\ SchedOff
    /\ spc = "checkpath"
    /\ cfg \in [command : {"crossbuild"},
                classifier : Classifiers,
                repoPath : RepoPaths,
                platforms : StringsUpTo(PlatformArgs, MaxPlatforms),
                cgo : BOOLEAN,
                goVersion : GoVersions]
    /\ res = [c |-> NoPlatforms, warnings |-> << >>, pgroups |-> << >>,
              pulled |-> << >>, cause |-> "none"]

\* if len(strings.TrimSpace(config.Repository.Path)) == 0 { log.Fatalf(...) }
CheckRepositoryPath ==
    /\ spc = "checkpath"
    /\ IF Len(TrimSpace(cfg.repoPath)) = 0
         THEN spc' = "fatal" /\ res' = [res EXCEPT !.cause = "repository.path"]
         ELSE spc' = "classify" /\ res' = res
    /\ UNCHANGED <<schedvars, cfg>>

\* The classification loop of either classifier.
Classify ==
    /\ spc = "classify"
    /\ res' = [res EXCEPT !.c =
                  IF cfg.classifier = "exact"
                    THEN ClassifyExact(NoPlatforms, cfg.platforms)
                    ELSE ClassifyRE(cfg.platforms)]
    /\ spc' = "warn"
    /\ UNCHANGED <<schedvars, cfg>>

\* The unknown patterns stopping the run instead of being warned about.
WarnUnknownFatal ==
    /\ spc = "warn"
    /\ IF Len(res.c.unknownPlatforms) > 0
         THEN spc' = "fatal" /\ res' = [res EXCEPT !.cause = "unknown"]
         ELSE spc' = "groups" /\ res' = res
    /\ UNCHANGED <<schedvars, cfg>>

\* if len(unknownPlatforms) > 0 { warn("unknown/unhandled platforms: ...") }
WarnUnknown ==
    /\ spc = "warn"
    /\ res' = IF Len(res.c.unknownPlatforms) > 0
                THEN [res EXCEPT !.warnings = Append(@, res.c.unknownPlatforms)]
                ELSE res
    /\ spc' = "groups"
    /\ UNCHANGED <<schedvars, cfg>>

\* The groups are formed and their images pulled; the first pull that fails
\* is fatal.  npulled is the number of pulls that succeed.
MakeGroups ==
    /\ spc = "groups"
    /\ LET pgroups == IF cfg.classifier = "exact"
                        THEN PlatformGroups(res.c, cfg.cgo, cfg.goVersion)
                        ELSE PlatformGroupRE(res.c, cfg.cgo, cfg.goVersion)
           pulls == IF cfg.classifier = "exact"
                      THEN PlatformPulls(res.c, cfg.cgo, cfg.goVersion)
                      ELSE <<pgroups[1].DockerImage>>
       IN  \E npulled \in 0..Len(pulls) :
              /\ res' = [res EXCEPT
                            !.pgroups = pgroups,
                            !.pulled = SubSeq(pulls, 1, npulled),
                            !.cause = IF npulled < Len(pulls) THEN "pull"
                                      ELSE @]
              /\ spc' = IF npulled < Len(pulls) THEN "fatal" ELSE "dispatch"
    /\ UNCHANGED <<schedvars, cfg>>

CrossbuildSetupNext ==
    \/ CheckRepositoryPath
    \/ Classify
    \/ WarnUnknown
    \/ MakeGroups

SpecCrossbuildSetup == CrossbuildSetupInit /\ [][CrossbuildSetupNext]_vars

\* The platforms of the jobs handed to the build, in order.
JobPlatforms ==
    IF cfg.classifier = "exact"
      THEN [i \in 1..Len(res.pgroups) |-> res.pgroups[i].Platform]
      ELSE res.pgroups[1].Platforms

\* ------------------------------------------------------ the linker flags

MaxClock == 1       \* latest reading of the wall clock explored, in seconds

\* A text is the sequence of its pieces: words, single spaces, quotes, line
\* breaks and template actions.
Templates ==
    {<< >>,
     <<" ">>,
     <<"-X main.Version=", "{{.Version}}">>,
     <<"-X main.BuildDate=", "{{date}}", "\n", "-s">>,
     <<"-s", "\n", "-extldflags", " ", "'", "-static", "'">>,
     <<"-X main.BuildUser=", "{{user}}", "@", "{{host}}">>,
     <<"-X main.Version=", "{{">>,
     <<"-X main.Version=", "{{.Missing}}">>}

\* The values of build.ext_ldflags explored.
ExtLDFlagsLists ==
    {<< >>, <<"-ltesting">>, <<"-ltesting", "-ltesting01">>, <<"-static">>,
     <<"-static", "-ltesting">>}

\* The values of GOOS explored.
TargetOS == {"linux", "windows", "darwin", "solaris", "illumos"}

\* The values of SOURCE_DATE_EPOCH explored: unset, a number, not a number.
SourceDates == {<< >>, <<"2", "2">>, <<"x">>}

\* The results of os.Hostname explored; "" stands for its failure.
Hosts == {"ci-1", ""}

\* The outputs of whoami explored.
Users == {"root", "builder"}

\* projInfo.Version
Version == "0.17.0"

\* template.Parse fails on an action that is not closed.
ParseFails(tmpl) == \E i \in 1..Len(tmpl) : tmpl[i] = "{{"

\* tmpl.Execute fails on a field repository.Info does not have.
ExecuteFails(tmpl) == \E i \in 1..Len(tmpl) : tmpl[i] = "{{.Missing}}"

\* os.Getenv("SOURCE_DATE_EPOCH") != ""
isReproducibleBuild(c) == c.SOURCE_DATE_EPOCH # << >>

\* HostFunc with the reproducible-build case left out.
HostFuncAlwaysHostname(c) ==
    IF c.hostname = "" THEN "unknown-host" ELSE c.hostname

\* HostFunc: the sentinel, or the host name, or unknown-host on failure.
HostFunc(c) ==
    IF isReproducibleBuild(c) THEN "reproducible"
    ELSE IF c.hostname = "" THEN "unknown-host"
    ELSE c.hostname

\* UserFunc: the sentinel, or the output of whoami.
UserFunc(c) == IF isReproducibleBuild(c) THEN "reproducible" ELSE c.whoami

\* The output of tmpl.Execute: actions replaced by their values, the date by
\* the build date in seconds.
Execute(tmpl, c, buildDate) ==
    [i \in 1..Len(tmpl) |->
        IF tmpl[i] = "{{.Version}}" THEN Version
        ELSE IF tmpl[i] = "{{date}}" THEN ToString(buildDate)
        ELSE IF tmpl[i] = "{{host}}" THEN HostFunc(c)
        ELSE IF tmpl[i] = "{{user}}" THEN UserFunc(c)
        ELSE tmpl[i]]

\* strings.Split(s, "\n")
RECURSIVE Split(_)
Split(s) ==
    IF \A i \in 1..Len(s) : s[i] # "\n" THEN <<s>>
    ELSE LET k == CHOOSE i \in 1..Len(s) :
                      s[i] = "\n" /\ \A h \in 1..(i - 1) : s[h] # "\n"
         IN  <<SubSeq(s, 1, k - 1)>> \o Split(SubSeq(s, k + 1, Len(s)))

\* strings.Join(list, " ")
RECURSIVE Join(_)
Join(list) ==
    IF list = << >> THEN << >>
    ELSE IF Len(list) = 1 THEN list[1]
    ELSE list[1] \o <<" ">> \o Join(Tail(list))

\* strconv.ParseInt(sourceDate, 10, 64) returns no error.
ParseIntOK(s) == s # << >> /\ \A i \in 1..Len(s) : s[i] \in Digits

\* getBuildDate: the clock, or SOURCE_DATE_EPOCH when it is set.
getBuildDate(c, now) ==
    IF c.SOURCE_DATE_EPOCH = << >> THEN now ELSE DecimalVal(c.SOURCE_DATE_EPOCH)

\* The exclusion set of an earlier release, without illumos.
StaticExcludedNoIllumos(os) == os \in {"darwin", "solaris"}

\* goos is one of darwin, solaris, illumos
StaticExcluded(os) == os \in {"darwin", "solaris", "illumos"}

\* fmt.Sprintf("-extldflags '%s'", strings.Join(extLDFlags, " "))
ExtDirective(extLDFlags) ==
    <<"-extldflags", " ", "'">>
    \o Join([i \in 1..Len(extLDFlags) |-> <<extLDFlags[i]>>]) \o <<"'">>

\* getLdflags: where it stops ("ok" when it returns) and the string returned.
getLdflags(c, now) ==
    LET blank == Len(TrimSpace(c.LDFlags)) = 0
        failure ==
            IF blank THEN "ok"
            ELSE IF c.SOURCE_DATE_EPOCH # << >> /\ ~ParseIntOK(c.SOURCE_DATE_EPOCH)
              THEN "SOURCE_DATE_EPOCH"
            ELSE IF ParseFails(c.LDFlags) THEN "parse"
            ELSE IF ExecuteFails(c.LDFlags) THEN "execute"
            ELSE "ok"
        lines == IF blank THEN << <<"-X main.Version=", Version>> >>
                 ELSE Split(Execute(c.LDFlags, c, getBuildDate(c, now)))
        extLDFlags ==
            IF c.Static /\ ~StaticExcluded(c.goos)
               /\ ~stringInSlice("-static", c.ExtLDFlags)
              THEN Append(c.ExtLDFlags, "-static")
              ELSE c.ExtLDFlags
        ldflags == IF Len(extLDFlags) > 0
                     THEN Append(lines, ExtDirective(extLDFlags))
                     ELSE lines
    IN  [status |-> failure,
         ldflags |-> IF failure = "ok" THEN Join(ldflags) ELSE << >>]

\* The configuration together with the host name and user of the moment.
InEnvironment(c, r) == [hostname |-> r.hostname, whoami |-> r.whoami] @@ c

\* getLdflags called twice with one configuration; between the calls the
\* clock may advance and the host and user may change.
LdflagsInit ==
    /\ SchedOff
    /\ spc = "first"
    /\ cfg \in [LDFlags : Templates, ExtLDFlags : ExtLDFlagsLists,
                Static : BOOLEAN, goos : TargetOS,
                SOURCE_DATE_EPOCH : SourceDates]
    /\ res \in [now : {0}, hostname : Hosts, whoami : Users,
                first : {[status |-> "none", ldflags |-> << >>]},
                second : {[status |-> "none", ldflags |-> << >>]},
                moved : {FALSE}]

\* The wall clock advances while the command runs.
Tick ==
    /\ spc \notin {"off", "fatal", "done", "success"}
    /\ "now" \in DOMAIN res
    /\ res.now < MaxClock
    /\ res' = [res EXCEPT !.now = @ + 1]
    /\ UNCHANGED <<schedvars, spc, cfg>>

\* The second call runs on another host, under another user.
ChangeEnvironment ==
    /\ spc = "second"
    /\ ~res.moved
    /\ \E h \in Hosts \ {res.hostname}, u \in Users \ {res.whoami} :
          res' = [res EXCEPT !.hostname = h, !.whoami = u, !.moved = TRUE]
    /\ UNCHANGED <<schedvars, spc, cfg>>

FirstCall ==
    /\ spc = "first"
    /\ LET r == getLdflags(InEnvironment(cfg, res), res.now)
       IN  /\ res' = [res EXCEPT !.first = r]
           /\ spc' = IF r.status = "ok" THEN "second" ELSE "fatal"
    /\ UNCHANGED <<schedvars, cfg>>

SecondCall ==
    /\ spc = "second"
    /\ res' = [res EXCEPT !.second =
                  getLdflags(InEnvironment(cfg, res), res.now)]
    /\ spc' = "done"
    /\ UNCHANGED <<schedvars, cfg>>

LdflagsNext ==
    \/ Tick
    \/ ChangeEnvironment
    \/ FirstCall
    \/ SecondCall

SpecLdflags == LdflagsInit /\ [][LdflagsNext]_vars

\* ------------------------------------------------------------- runBuild

\* config.Build.Binaries
Binaries ==
    <<[Name |-> "promu", Path |-> "."], [Name |-> "tool", Path |-> "./cmd/tool"]>>

\* The binary-names argument, split at its commas.
BinaryArgs == {<<"all">>, <<"tool">>, <<"tool", "promu">>, <<"promu", "nope">>}

\* validateBinaryNames returning the binaries in the order of the
\* configuration instead of the order requested.
validateBinaryNamesConfigOrder(binaryNames, cfgBinaries) ==
    IF \E n \in 1..Len(binaryNames) :
          \A i \in 1..Len(cfgBinaries) : cfgBinaries[i].Name # binaryNames[n]
      THEN [err |-> TRUE, binaries |-> << >>]
      ELSE [err |-> FALSE,
            binaries |-> SelectSeq(cfgBinaries,
                             LAMBDA b : \E n \in 1..Len(binaryNames) :
                                            binaryNames[n] = b.Name)]

\* validateBinaryNames: for each requested name the first configured binary
\* of that name, or the error for the first name that has none.
RECURSIVE validateBinaryNames(_, _)
validateBinaryNames(binaryNames, cfgBinaries) ==
    IF binaryNames = << >> THEN [err |-> FALSE, binaries |-> << >>]
    ELSE LET found == {i \in 1..Len(cfgBinaries) :
                          cfgBinaries[i].Name = Head(binaryNames)}
             rest == validateBinaryNames(Tail(binaryNames), cfgBinaries)
         IN  IF found = {} \/ rest.err THEN [err |-> TRUE, binaries |-> << >>]
             ELSE [err |-> FALSE,
                   binaries |-> <<cfgBinaries[CHOOSE i \in found :
                                      \A h \in found : i <= h]>>
                                \o rest.binaries]

\* The state of runBuild before its first statement.  The build that runs its
\* jobs concurrently composes the flags without SOURCE_DATE_EPOCH; it is
\* explored with the variable unset, where both composers agree.
RunBuildInit ==
    /\ SchedOff
    /\ spc = "b.checkpath"
    /\ cfg \in [command : {"build"},
                scheduler : {"sequential", "concurrent"},
                repoPath : RepoPaths,
                LDFlags : Templates,
                ExtLDFlags : {<< >>},
                Static : BOOLEAN,
                goos : {"linux"},
                SOURCE_DATE_EPOCH : {<< >>, <<"x">>},
                hostname : {"ci-1"},
                whoami : {"root"},
                binariesString : BinaryArgs]
    /\ cfg.scheduler = "concurrent" => cfg.SOURCE_DATE_EPOCH = << >>
    /\ res = [now |-> 0, ldflags |-> << >>, calls |-> 0,
              binariesToBuild |-> << >>, next |-> 1, errs |-> 0,
              commands |-> << >>, cause |-> "none"]

\* The path check with strings.TrimSpace left out.
BuildCheckRepositoryPathNoTrim ==
    /\ spc = "b.checkpath"
    /\ IF Len(cfg.repoPath) = 0
         THEN spc' = "fatal" /\ res' = [res EXCEPT !.cause = "repository.path"]
         ELSE spc' = "b.ldflags" /\ res' = res
    /\ UNCHANGED <<schedvars, cfg>>

\* if len(strings.TrimSpace(config.Repository.Path)) == 0 { log.Fatalf(...) }
BuildCheckRepositoryPath ==
    /\ spc = "b.checkpath"
    /\ IF Len(TrimSpace(cfg.repoPath)) = 0
         THEN spc' = "fatal" /\ res' = [res EXCEPT !.cause = "repository.path"]
         ELSE spc' = "b.ldflags" /\ res' = res
    /\ UNCHANGED <<schedvars, cfg>>

\* ldflags = getLdflags(projInfo): fatal inside getLdflags, or the string.
ComposeLdflags ==
    /\ spc = "b.ldflags"
    /\ LET r == getLdflags(cfg, res.now)
       IN  IF r.status = "ok"
             THEN /\ res' = [res EXCEPT !.ldflags = r.ldflags, !.calls = @ + 1]
                  /\ spc' = "b.validate"
             ELSE /\ res' = [res EXCEPT !.cause = r.status]
                  /\ spc' = "fatal"
    /\ UNCHANGED <<schedvars, cfg>>

\* binariesString == "all", or validateBinaryNames and fatal on its error.
SelectBinaries ==
    /\ spc = "b.validate"
    /\ IF cfg.binariesString = <<"all">>
         THEN /\ res' = [res EXCEPT !.binariesToBuild = Binaries]
              /\ spc' = "b.build"
         ELSE LET v == validateBinaryNames(cfg.binariesString, Binaries)
              IN  IF v.err
                    THEN /\ res' = [res EXCEPT !.cause = "validation"]
                         /\ spc' = "fatal"
                    ELSE /\ res' = [res EXCEPT !.binariesToBuild = v.binaries]
                         /\ spc' = "b.build"
    /\ UNCHANGED <<schedvars, cfg>>

\* One iteration of the build loop with the flags composed anew for the job.
BuildBinaryRecompose ==
    /\ spc = "b.build"
    /\ res.next <= Len(res.binariesToBuild)
    /\ \E ok \in BOOLEAN :
          LET command == [binary |-> res.binariesToBuild[res.next],
                          ldflags |-> getLdflags(cfg, res.now).ldflags,
                          at |-> res.now]
              stop == ~ok /\ cfg.scheduler = "sequential"
          IN  /\ res' = [res EXCEPT
                            !.commands = Append(@, command),
                            !.calls = @ + 1,
                            !.next = @ + 1,
                            !.errs = IF ok THEN @ ELSE @ + 1,
                            !.cause = IF stop THEN "command" ELSE @]
              /\ spc' = IF stop THEN "fatal" ELSE "b.build"
    /\ UNCHANGED <<schedvars, cfg>>

\* One iteration of the build loop: buildBinary runs "go build -ldflags
\* <ldflags>" for the next binary.  The sequential build is fatal at the first
\* command that fails, the concurrent one records the error and goes on.
BuildBinary ==
    /\ spc = "b.build"
    /\ res.next <= Len(res.binariesToBuild)
    /\ \E ok \in BOOLEAN :
          LET command == [binary |-> res.binariesToBuild[res.next],
                          ldflags |-> res.ldflags,
                          at |-> res.now]
              stop == ~ok /\ cfg.scheduler = "sequential"
          IN  /\ res' = [res EXCEPT
                            !.commands = Append(@, command),
                            !.next = @ + 1,
                            !.errs = IF ok THEN @ ELSE @ + 1,
                            !.cause = IF stop THEN "command" ELSE @]
              /\ spc' = IF stop THEN "fatal" ELSE "b.build"
    /\ UNCHANGED <<schedvars, cfg>>

\* After the loop: return, or fatal("Crossbuild failed") when errors were
\* recorded.
BuildsDone ==
    /\ spc = "b.build"
    /\ res.next > Len(res.binariesToBuild)
    /\ IF res.errs > 0
         THEN spc' = "fatal" /\ res' = [res EXCEPT !.cause = "Crossbuild failed"]
         ELSE spc' = "success" /\ res' = res
    /\ UNCHANGED <<schedvars, cfg>>

RunBuildNext ==
    \/ Tick
    \/ BuildCheckRepositoryPath
    \/ ComposeLdflags
    \/ SelectBinaries
    \/ BuildBinary
    \/ BuildsDone

SpecRunBuild == RunBuildInit /\ [][RunBuildNext]_vars

\* Either command from its first statement to its dispatch.
SetupNext ==
    \/ CheckRepositoryPath
    \/ Classify
    \/ WarnUnknown
    \/ MakeGroups
    \/ Tick
    \/ BuildCheckRepositoryPath
    \/ ComposeLdflags
    \/ SelectBinaries
    \/ BuildBinary
    \/ BuildsDone

SpecSetup == (CrossbuildSetupInit \/ RunBuildInit) /\ [][SetupNext]_vars

\* ------------------------------------------------------- the changelog

MaxChanges == 3     \* longest list of changes explored

\* kindChange = iota, kindFeature, kindEnhancement, kindBugfix
KindRank(k) ==
    CASE k = "CHANGE" -> 0 [] k = "FEATURE" -> 1
      [] k = "ENHANCEMENT" -> 2 [] k = "BUGFIX" -> 3

\* The values of Change.Kinds explored: none, single kinds, lists of which
\* one is a prefix of another, and a list that is not in rank order.
KindLists ==
    {<< >>, <<"CHANGE">>, <<"FEATURE">>, <<"BUGFIX">>,
     <<"CHANGE", "FEATURE">>, <<"CHANGE", "BUGFIX">>,
     <<"CHANGE", "FEATURE", "ENHANCEMENT">>, <<"FEATURE", "CHANGE">>}

\* The first position at which two kind lists differ, 0 when one is a prefix
\* of the other.
FirstDifference(k1, k2) ==
    LET n == IF Len(k1) > Len(k2) THEN Len(k2) ELSE Len(k1)
        d == {j \in 1..n : k1[j] # k2[j]}
    IN  IF d = {} THEN 0 ELSE CHOOSE j \in d : \A h \in d : j <= h

\* less with equal kind lists taken as out of order.
lessStrict(k1, k2) ==
    IF Len(k1) = 0 THEN Len(k2) = 0
    ELSE IF Len(k2) = 0 THEN TRUE
    ELSE LET j == FirstDifference(k1, k2)
         IN  IF j # 0 THEN KindRank(k1[j]) < KindRank(k2[j])
             ELSE Len(k1) < Len(k2)

\* The closure less of Changes.Sorted.
less(k1, k2) ==
    IF Len(k1) = 0 THEN Len(k2) = 0
    ELSE IF Len(k2) = 0 THEN TRUE
    ELSE LET j == FirstDifference(k1, k2)
         IN  IF j # 0 THEN KindRank(k1[j]) < KindRank(k2[j])
             ELSE Len(k1) <= Len(k2)

\* Changes.Sorted on the kind lists of the changes: "nil", or the error for
\* the first neighbours that are out of order.
Sorted(c) ==
    LET bad == {i \in 1..(Len(c) - 1) : ~less(c[i], c[i + 1])}
    IN  IF bad = {} THEN "nil" ELSE "should be after"

SortedInit ==
    /\ SchedOff
    /\ spc = "sorted"
    /\ cfg \in [changes : StringsUpTo(KindLists, MaxChanges)]
    /\ res = [err |-> "unset"]

CallSorted ==
    /\ spc = "sorted"
    /\ res' = [err |-> Sorted(cfg.changes)]
    /\ spc' = "done"
    /\ UNCHANGED <<schedvars, cfg>>

SortedNext ==
    \/ CallSorted

SpecSorted == SortedInit /\ [][SortedNext]_vars

MaxLines == 4       \* longest changelog file explored, in lines

\* The lines a changelog file is made of here: version headers of both
\* levels for two versions, one of them with a date that does not exist, a
\* blank line, a change and a line of prose.
ChangelogLines ==
    {"## 1.0.0 / 2016-01-02", "# 1.0.0 / 2016-01-02", "## 1.0.0 / 2006-19-02",
     "## 0.0.1 / 2016-01-01", "# 0.0.1 / 2016-01-01", "",
     "* [BUGFIX] Some fix.", "This is the first stable release."}

\* The versions asked for.
RequestedVersions == {"1.0.0", "0.0.1", "1.0.0-notfound"}

NoHeader == [level |-> 0, version |-> "", date |-> <<0, 0, 0>>]

\* A line read as "#{1,2} <version> / <yyyy>-<mm>-<dd>": the number of #
\* signs, the version and the date, or NoHeader when it has no such form.
Header(line) ==
    CASE line = "## 1.0.0 / 2016-01-02" ->
            [level |-> 2, version |-> "1.0.0", date |-> <<2016, 1, 2>>]
      [] line = "# 1.0.0 / 2016-01-02" ->
            [level |-> 1, version |-> "1.0.0", date |-> <<2016, 1, 2>>]
      [] line = "## 1.0.0 / 2006-19-02" ->
            [level |-> 2, version |-> "1.0.0", date |-> <<2006, 19, 2>>]
      [] line = "## 0.0.1 / 2016-01-01" ->
            [level |-> 2, version |-> "0.0.1", date |-> <<2016, 1, 1>>]
      [] line = "# 0.0.1 / 2016-01-01" ->
            [level |-> 1, version |-> "0.0.1", date |-> <<2016, 1, 1>>]
      [] OTHER -> NoHeader

\* reHeader.FindStringSubmatch(line) has a match: one or two # signs, the
\* quoted version, " / " and a date of digits.
MatchesHeader(line, version) ==
    Header(line).level \in {1, 2} /\ Header(line).version = version

\* time.Parse("2006-01-02", date) returns no error.
TimeParseOK(date) == date[2] \in 1..12 /\ date[3] \in 1..31

\* strings.HasPrefix(line, "## ")
HasPrefixH2(line) == Header(line).level = 2

\* strings.TrimSpace(line) == ""
IsBlankLine(line) == line = ""

\* reChange.FindStringSubmatch(line) has a group: "* [" ... "]" at the start.
MatchesChange(line) == line = "* [BUGFIX] Some fix."

\* The state of ReadEntry before the first line; lines and changes are kept
\* as the positions of the lines in the file.
ScanStart ==
    [reading |-> FALSE, lines |-> << >>, changes |-> << >>,
     date |-> <<0, 0, 0>>, err |-> "nil"]

\* The loop body of ReadEntry for line i: the switch on the line.
ScanLine(st, file, version, i) ==
    IF MatchesHeader(file[i], version)
      THEN IF TimeParseOK(Header(file[i]).date)
             THEN [st EXCEPT !.reading = TRUE, !.date = Header(file[i]).date]
             ELSE [st EXCEPT !.reading = TRUE, !.err = "invalid changelog date"]
    ELSE IF HasPrefixH2(file[i])
      THEN [st EXCEPT !.reading = FALSE]
    ELSE IF st.reading
      THEN IF Len(st.lines) = 0 /\ IsBlankLine(file[i]) THEN st
           ELSE [st EXCEPT
                    !.changes = IF MatchesChange(file[i]) THEN Append(@, i)
                                ELSE @,
                    !.lines = Append(@, i)]
    ELSE st

\* for (len(lines) == 0 || reading) && scanner.Scan() { ... }, left at once
\* by the return of the date error.
RECURSIVE Scan(_, _, _, _)
Scan(st, file, version, i) ==
    IF i > Len(file) \/ ~(Len(st.lines) = 0 \/ st.reading) \/ st.err # "nil"
      THEN st
      ELSE Scan(ScanLine(st, file, version, i), file, version, i + 1)

\* ReadEntry: the error, or the entry with Text as its list of lines.
ReadEntry(file, version) ==
    LET st == Scan(ScanStart, file, version, 1)
        failure == IF st.err # "nil" THEN st.err
                   ELSE IF st.date = <<0, 0, 0>> THEN "unable to locate"
                   ELSE "nil"
    IN  [err |-> failure,
         Date |-> IF failure = "nil" THEN st.date ELSE <<0, 0, 0>>,
         Changes |-> IF failure = "nil"
                       THEN [k \in 1..Len(st.changes) |-> file[st.changes[k]]]
                           ELSE << >>,
         Text |-> IF failure = "nil"
                    THEN [k \in 1..Len(st.lines) |-> file[st.lines[k]]]
                        ELSE << >>,
         from |-> IF failure = "nil" THEN st.lines ELSE << >>]

ReadEntryInit ==
    /\ SchedOff
    /\ spc = "readentry"
    /\ cfg \in [file : StringsUpTo(ChangelogLines, MaxLines),
                version : RequestedVersions]
    /\ res = [err |-> "unset", Date |-> <<0, 0, 0>>, Changes |-> << >>,
              Text |-> << >>, from |-> << >>]

CallReadEntry ==
    /\ spc = "readentry"
    /\ res' = ReadEntry(cfg.file, cfg.version)
    /\ spc' = "done"
    /\ UNCHANGED <<schedvars, cfg>>

ReadEntryNext ==
    \/ CallReadEntry

SpecReadEntry == ReadEntryInit /\ [][ReadEntryNext]_vars

\* ------------------------------------------- one containerized job alone

\* The entries ioutil.ReadDir("./") can return, in its (sorted) order.
DirEntries == <<".build", "cmd", "main.go">>

\* The listings explored: every sub-list of DirEntries.
DirListings ==
    {SelectSeq(DirEntries, LAMBDA f : f \in keep) : keep \in SUBSET {DirEntries[i] : i \in 1..Len(DirEntries)}}

excludes == <<".build">>

\* platformGroup.Build run by itself: the commands it has run, each with its
\* outcome, and what it returned ("running" until it returns, "nil", or the
\* step whose error it returns).
JobBuildInit ==
    /\ SchedOff
    /\ spc = "j.enter"
    /\ cfg \in [Platform : {"", "linux/amd64"},
                DOCKER_HOST : BOOLEAN,
                files : DirListings]
    /\ res = [log |-> << >>, ret |-> "running", file |-> 1]

\* sh.RunCommand("docker", command, ...) has run and returned ok or an error;
\* an error is returned by Build at once, otherwise Build goes on at pc.
RunDocker(command, arg, ok, pc) ==
    /\ res' = [res EXCEPT
                  !.log = Append(@, [command |-> command, arg |-> arg, ok |-> ok]),
                  !.ret = IF ok THEN @ ELSE command]
    /\ spc' = IF ok THEN pc ELSE "j.returned"

\* if len(pg.Platform) == 0 { return nil }; os.Getwd()
JobBuildEnter ==
    /\ spc = "j.enter"
    /\ IF cfg.Platform = ""
         THEN /\ res' = [res EXCEPT !.ret = "nil"]
              /\ spc' = "j.returned"
         ELSE \E ok \in BOOLEAN :
                 /\ res' = [res EXCEPT !.ret = IF ok THEN @ ELSE "getwd"]
                 /\ spc' = IF ok THEN "j.create" ELSE "j.returned"
    /\ UNCHANGED <<schedvars, cfg>>

\* docker create -t --name ctrName [-v ...] image -i repoPath -p platform
JobBuildCreate ==
    /\ spc = "j.create"
    /\ \E ok \in BOOLEAN : RunDocker("create", cfg.Platform, ok, "j.readdir")
    /\ UNCHANGED <<schedvars, cfg>>

\* files, err := ioutil.ReadDir("./"); the copies are for a remote daemon only.
JobBuildReadDir ==
    /\ spc = "j.readdir"
    /\ \E ok \in BOOLEAN :
          /\ res' = [res EXCEPT !.ret = IF ok THEN @ ELSE "readdir"]
          /\ spc' = IF ~ok THEN "j.returned"
                    ELSE IF cfg.DOCKER_HOST THEN "j.files" ELSE "j.start"
    /\ UNCHANGED <<schedvars, cfg>>

\* One iteration of the FILES loop with the excludes left out.
JobBuildCopyFileAll ==
    /\ spc = "j.files"
    /\ IF res.file > Len(cfg.files)
         THEN /\ spc' = "j.modcache"
              /\ res' = res
         ELSE \E ok \in BOOLEAN :
                 /\ res' = [res EXCEPT
                               !.log = Append(@, [command |-> "cp",
                                                  arg |-> cfg.files[res.file],
                                                  ok |-> ok]),
                               !.ret = IF ok THEN @ ELSE "cp",
                               !.file = @ + 1]
                 /\ spc' = IF ok THEN "j.files" ELSE "j.returned"
    /\ UNCHANGED <<schedvars, cfg>>

\* One iteration of the FILES loop: an excluded entry is passed over, any
\* other is copied with docker cp src dst; after the last entry the loop ends.
JobBuildCopyFile ==
    /\ spc = "j.files"
    /\ IF res.file > Len(cfg.files)
         THEN /\ spc' = "j.modcache"
              /\ res' = res
         ELSE IF stringInSlice(cfg.files[res.file], excludes)
         THEN /\ spc' = "j.files"
              /\ res' = [res EXCEPT !.file = @ + 1]
         ELSE \E ok \in BOOLEAN :
                 /\ res' = [res EXCEPT
                               !.log = Append(@, [command |-> "cp",
                                                  arg |-> cfg.files[res.file],
                                                  ok |-> ok]),
                               !.ret = IF ok THEN @ ELSE "cp",
                               !.file = @ + 1]
                 /\ spc' = IF ok THEN "j.files" ELSE "j.returned"
    /\ UNCHANGED <<schedvars, cfg>>

\* docker cp $GOPATH/pkg/ ctrName:/go/pkg/
JobBuildCopyModCache ==
    /\ spc = "j.modcache"
    /\ \E ok \in BOOLEAN : RunDocker("cp", "/go/pkg/", ok, "j.start")
    /\ UNCHANGED <<schedvars, cfg>>

\* docker start -a ctrName
JobBuildStart ==
    /\ spc = "j.start"
    /\ \E ok \in BOOLEAN : RunDocker("start", "", ok, "j.copyout")
    /\ UNCHANGED <<schedvars, cfg>>

\* docker cp -a ctrName:/app/.build/. cwd/.build, under dockerCopyMutex
JobBuildCopyOut ==
    /\ spc = "j.copyout"
    /\ \E ok \in BOOLEAN : RunDocker("cp -a", ".build", ok, "j.rm")
    /\ UNCHANGED <<schedvars, cfg>>

\* return sh.RunCommand("docker", "rm", "-f", ctrName)
JobBuildRemove ==
    /\ spc = "j.rm"
    /\ \E ok \in BOOLEAN :
          /\ res' = [res EXCEPT
                        !.log = Append(@, [command |-> "rm", arg |-> "",
                                           ok |-> ok]),
                        !.ret = IF ok THEN "nil" ELSE "rm"]
          /\ spc' = "j.returned"
    /\ UNCHANGED <<schedvars, cfg>>

JobBuildNext ==
    \/ JobBuildEnter
    \/ JobBuildCreate
    \/ JobBuildReadDir
    \/ JobBuildCopyFile
    \/ JobBuildCopyModCache
    \/ JobBuildStart
    \/ JobBuildCopyOut
    \/ JobBuildRemove

SpecJobBuild == JobBuildInit /\ [][JobBuildNext]_vars

\* ------------------------------------------------ parallel build threads

MaxParallel == 3    \* largest --parallelism explored
MaxPlatformCount == 4   \* longest platform list of a group explored

\* The thread indices the loop of Build can start.
Threads == 0..(MaxParallel - 1)

\* minb and maxb of buildThread rounded up instead of down.
ThreadRangeRoundUp(p, n, P) ==
    LET minb == (p * n + P - 1) \div P
        maxb == ((p + 1) * n + P - 1) \div P
    IN  [minb |-> minb, maxb |-> IF maxb > n THEN n ELSE maxb]

\* minb := p * len(pg.Platforms) / *parallelFlag
\* maxb := (p + 1) * len(pg.Platforms) / *parallelFlag, at most the length
ThreadRange(p, n, P) ==
    LET minb == (p * n) \div P
        maxb == ((p + 1) * n) \div P
    IN  [minb |-> minb, maxb |-> IF maxb > n THEN n ELSE maxb]

\* The positions of pg.Platforms[minb:maxb].
Slice(r) == {i \in 0..(MaxPlatformCount + 1) : r.minb <= i /\ i < r.maxb}

\* platformGroup.Build of the regexp classifier before its first statement:
\* n platforms, --parallelism P, --parallelism-thread thread (-1 when not
\* given).
ParallelInit ==
    /\ SchedOff
    /\ spc = "p.enter"
    /\ cfg \in [n : 0..MaxPlatformCount, P : 0..MaxParallel,
                thread : (0 - 1)..(MaxParallel + 1)]
    /\ res = [pulled |-> FALSE,
              tpc |-> [p \in Threads |-> "idle"],
              terr |-> [p \in Threads |-> FALSE],
              built |-> [p \in Threads |-> {}],
              wg |-> 0, atomicErr |-> "nil", ret |-> "running",
              own |-> {}]

\* if *parallelThreadFlag != -1 { return pg.buildThread(...) }; docker pull
ParallelEnter ==
    /\ spc = "p.enter"
    /\ IF cfg.thread # 0 - 1
         THEN spc' = "p.single" /\ res' = res
         ELSE \E ok \in BOOLEAN :
                 /\ res' = [res EXCEPT !.pulled = ok,
                                       !.ret = IF ok THEN @ ELSE "err"]
                 /\ spc' = IF ok THEN "p.spawn" ELSE "p.returned"
    /\ UNCHANGED <<schedvars, cfg>>

\* wg.Add(*parallelFlag); for p := 0; p < *parallelFlag; p++ { go func ... }
ParallelSpawn ==
    /\ spc = "p.spawn"
    /\ res' = [res EXCEPT
                  !.wg = cfg.P,
                  !.tpc = [p \in Threads |-> IF p < cfg.P THEN "ready" ELSE "idle"]]
    /\ spc' = "p.wait"
    /\ UNCHANGED <<schedvars, cfg>>

\* buildThread(repoPath, p) in a goroutine: an empty slice returns nil, any
\* other is built in one container, which succeeds or fails.
ThreadBuild(p) ==
    /\ spc = "p.wait"
    /\ res.tpc[p] = "ready"
    /\ LET s == Slice(ThreadRange(p, cfg.n, cfg.P))
       IN  \E ok \in (IF s = {} THEN {TRUE} ELSE BOOLEAN) :
              res' = [res EXCEPT !.tpc[p] = "returned",
                                 !.terr[p] = ~ok,
                                 !.built[p] = IF ok THEN s ELSE {}]
    /\ UNCHANGED <<schedvars, spc, cfg>>

\* if err != nil { atomicErr.Store(err) }; deferred wg.Done()
ThreadDone(p) ==
    /\ spc = "p.wait"
    /\ res.tpc[p] = "returned"
    /\ res' = [res EXCEPT !.tpc[p] = "done",
                          !.atomicErr = IF res.terr[p] THEN "err" ELSE @,
                          !.wg = @ - 1]
    /\ UNCHANGED <<schedvars, spc, cfg>>

\* Build returning without wg.Wait().
ParallelNoWait ==
    /\ spc = "p.wait"
    /\ res' = [res EXCEPT !.ret = res.atomicErr]
    /\ spc' = "p.returned"
    /\ UNCHANGED <<schedvars, cfg>>

\* wg.Wait(); return atomicErr.Load()
ParallelWait ==
    /\ spc = "p.wait"
    /\ res.wg = 0
    /\ res' = [res EXCEPT !.ret = res.atomicErr]
    /\ spc' = "p.returned"
    /\ UNCHANGED <<schedvars, cfg>>

\* buildThread(repoPath, *parallelThreadFlag) called directly: the division
\* panics for --parallelism 0 and the slice expression for minb > maxb.
SingleThread ==
    /\ spc = "p.single"
    /\ IF cfg.P = 0
         THEN spc' = "p.panic" /\ res' = [res EXCEPT !.ret = "integer divide by zero"]
         ELSE LET r == ThreadRange(cfg.thread, cfg.n, cfg.P)
              IN  IF r.minb > r.maxb
                    THEN /\ spc' = "p.panic"
                         /\ res' = [res EXCEPT !.ret = "slice bounds out of range"]
                    ELSE \E ok \in (IF Slice(r) = {} THEN {TRUE} ELSE BOOLEAN) :
                            /\ spc' = "p.returned"
                            /\ res' = [res EXCEPT
                                          !.ret = IF ok THEN "nil" ELSE "err",
                                          !.own = IF ok THEN Slice(r) ELSE {}]
    /\ UNCHANGED <<schedvars, cfg>>

ParallelThread(p) ==
    \/ ThreadBuild(p)
    \/ ThreadDone(p)

ParallelNext ==
    \/ ParallelEnter
    \/ ParallelSpawn
    \/ \E p \in Threads : ParallelThread(p)
    \/ ParallelWait
    \/ SingleThread

SpecParallel == ParallelInit /\ [][ParallelNext]_vars

\* ------------------------------------------------------------------ claims

Failed(j) == err[j] = "err"
FailedJobs == {j \in Jobs : Failed(j)}

\* Number of entries of the error list that belong to job j.
Count(seq, j) == Cardinality({i \in 1..Len(seq) : seq[i] = j})

\* C1: the number of jobs that were started and have not released their slot
\* never exceeds the capacity of the admission gate.
C1_BoundedConcurrency == Cardinality(Running) <= buildNum

\* The gate is full while a job still waits to be dispatched.
C1_Witness ==
    /\ mainpc = "dispatch"
    /\ next <= NJobs
    /\ Cardinality(Running) = buildNum
    /\ sem = buildNum

\* C2: when the wait loop has ended the error list holds exactly one entry for
\* each job whose Build returned an error.
C2_AllFailuresRecorded ==
    mainpc \in {"check", "fatal", "success"} =>
        /\ \A j \in Jobs : Count(errs, j) = (IF Failed(j) THEN 1 ELSE 0)
        /\ Len(errs) = Cardinality(FailedJobs)

\* C3: the run ends in the fatal outcome if and only if some job's Build
\* returned an error, and in success otherwise.
C3_FatalIffFailed ==
    /\ mainpc = "fatal" => FailedJobs # {}
    /\ mainpc = "success" => FailedJobs = {}

\* The run ended fatally although the error list lost an entry.
C3_Witness ==
    /\ mainpc = "fatal"
    /\ Len(errs) < Cardinality(FailedJobs)

\* C4: every job is started exactly once and has run to completion when the
\* process exits, whatever the other jobs returned.
C4_NoJobSkipped ==
    /\ \A j \in Jobs : nstarted[j] <= 1
    /\ mainpc \in {"success", "fatal"} =>
          \A j \in Jobs : nstarted[j] = 1 /\ jpc[j] = "done" /\ err[j] # "none"

\* The first job failed and the last job, dispatched later, still completed.
C4_Witness ==
    /\ mainpc = "fatal"
    /\ err[1] = "err"
    /\ err[NJobs] = "nil"
    /\ jpc[NJobs] = "done"

\* C5: the error list is read and the outcome decided only when no dispatched
\* job is still running or about to record its result.
C5_DecideAfterDrain ==
    mainpc \in {"check", "fatal", "success"} => (Running = {} /\ sem = 0)

\* The wait loop has just ended with a recorded failure.
C5_Witness ==
    /\ mainpc = "check"
    /\ Len(errs) > 0
    /\ \A j \in Jobs : jpc[j] = "done"

\* C6: at most one job at a time is inside the copy-out critical section.
C6_CopyOutExclusive == Cardinality({j \in Jobs : jpc[j] = "copyout"}) <= 1

\* One job copies out while another one waits for the mutex.
C6_Witness ==
    \E j, k \in Jobs : j # k /\ jpc[j] = "copyout" /\ jpc[k] = "lock"

\* C7: a panicking job never crashes the scheduler.
C7_SchedulerSurvivesPanic ==
    \A j \in Jobs : jpc[j] = "panicked" => mainpc # "crashed"

\* C8: under fair scheduling, when every external command returns, the run
\* ends with every slot free and the copy-out mutex unlocked.
C8_Terminates ==
    <>[](mainpc \in {"success", "fatal"} /\ sem = 0 /\ dockerCopyMutex = 0)

\* A run in which the dispatch loop had to wait for a slot has ended; a job
\* failed after its container had been created.
C8_Witness ==
    /\ mainpc = "fatal"
    /\ buildNum < NJobs
    /\ \E j \in Jobs : Failed(j) /\ ctr[j]
    /\ dockerCopyMutex = 0

\* The phases of a containerized job before its copy-out.
ComputePcs == {"create", "copyin", "start"}

ComputeStep(j) ==
    \/ DockerCreate(j)
    \/ DockerCpIn(j)
    \/ DockerStart(j)

\* C9: the copy-out mutex is held only by a job executing its copy-out; a job
\* in its create, copy-in or container-run phase neither holds it nor is
\* blocked by another job's copy-out.
C9_NarrowCriticalSection ==
    \A j \in Jobs :
        /\ dockerCopyMutex = j => jpc[j] = "copyout"
        /\ jpc[j] \in ComputePcs =>
              dockerCopyMutex # j /\ ENABLED (Alive /\ ComputeStep(j))

\* One job copies out while another one is in its container-run phase.
C9_Witness ==
    \E j, k \in Jobs : j # k /\ jpc[j] = "copyout" /\ jpc[k] = "start"

\* C10: a container created by a job does not exist any more once the job's
\* Build has returned.
C10_NoContainerOutlivesJob ==
    \A j \in Jobs :
        jpc[j] \in {"returned", "append", "release", "done"} => ~ctr[j]

\* C11: for every value of CROSSBUILDN and every CPU count the limit that
\* sizes the admission gate is at least 1; a numeric override other than 0
\* takes precedence and the default is max(1, NumCPU - 1).
C11_LimitAtLeastOne ==
    spc \in {"makesem", "dispatch", "panic"} =>
        /\ res.buildNum >= 1
        /\ spc # "panic"
        /\ Atoi(cfg.CROSSBUILDN) # 0 => res.buildNum = Atoi(cfg.CROSSBUILDN)
        /\ Atoi(cfg.CROSSBUILDN) = 0 => res.buildNum = Max(1, cfg.NumCPU - 1)

\* C12: in the exact-match classifier, whatever the configured platform list
\* (a repeated platform, an alias next to one of its variants), the dispatched
\* jobs are pairwise distinct in platform and in job name.
C12_JobsPairwiseDistinct ==
    (spc = "dispatch" /\ cfg.classifier = "exact") =>
        \A i, j \in 1..Len(res.pgroups) :
            i # j => /\ res.pgroups[i].Platform # res.pgroups[j].Platform
                     /\ res.pgroups[i].Name # res.pgroups[j].Name

\* Whether some configured pattern matches the canonical platform p.
Matched(p) ==
    \E i \in 1..Len(cfg.platforms) : Contains(Chars(p), Chars(cfg.platforms[i]))

\* C13: in the regexp classifier, for every list of patterns, the platform
\* list handed to the build holds each matched canonical platform exactly once
\* and no other platform.
C13_EachPlatformOnce ==
    (spc = "dispatch" /\ cfg.classifier = "regexp") =>
        \A k \in 1..Len(defaultPlatforms) :
            Count(JobPlatforms, defaultPlatforms[k]) =
                IF Matched(defaultPlatforms[k]) THEN 1 ELSE 0

\* Two patterns whose match sets overlap have reached the build.
C13_Witness ==
    /\ spc = "dispatch"
    /\ cfg.classifier = "regexp"
    /\ \E i, j \in 1..Len(cfg.platforms) :
          /\ i # j
          /\ \E k \in 1..Len(defaultPlatforms) :
                /\ Contains(Chars(defaultPlatforms[k]), Chars(cfg.platforms[i]))
                /\ Contains(Chars(defaultPlatforms[k]), Chars(cfg.platforms[j]))

Range(seq) == {seq[i] : i \in 1..Len(seq)}

\* The canonical platforms one configured token stands for.
Resolved(classifier, token) ==
    IF classifier = "regexp"
      THEN {p \in Range(defaultPlatforms) : Contains(Chars(p), Chars(token))}
    ELSE IF token \in DOMAIN armPlatformsAliases
      THEN Range(armPlatformsAliases[token])
    ELSE {token} \cap (Range(defaultMainPlatforms) \cup Range(defaultARMPlatforms)
                       \cup Range(defaultPowerPCPlatforms)
                       \cup Range(defaultMIPSPlatforms)
                       \cup Range(defaultS390Platforms))

\* The configured tokens that stand for no canonical platform, in order.
UnknownTokens ==
    SelectSeq(cfg.platforms, LAMBDA t : Resolved(cfg.classifier, t) = {})

AliasTokens == {"linux/arm", "freebsd/arm", "openbsd/arm", "netbsd/arm"}

\* The ARM family list expected for a list of tokens: an alias gives its
\* variants, a canonical ARM platform gives itself, in the order of the tokens.
RECURSIVE ExpectedARM(_)
ExpectedARM(tokens) ==
    IF tokens = << >> THEN << >>
    ELSE (IF Head(tokens) = "linux/arm"
            THEN <<"linux/armv5", "linux/armv6", "linux/armv7">>
          ELSE IF Head(tokens) \in AliasTokens
            THEN armPlatformsAliases[Head(tokens)]
          ELSE IF Head(tokens) \in Range(defaultARMPlatforms)
            THEN <<Head(tokens)>>
          ELSE << >>)
         \o ExpectedARM(Tail(tokens))

\* C15: in the exact-match classifier each alias token resolves to exactly its
\* fixed list of variants, all of them in the ARM family and in no other, and
\* no alias token is reported as unknown.
C15_AliasExpands ==
    (cfg.classifier = "exact" /\ spc \in {"warn", "groups", "dispatch"}) =>
        /\ AliasTokens = DOMAIN armPlatformsAliases
        /\ res.c.armPlatforms = ExpectedARM(cfg.platforms)
        /\ \A a \in AliasTokens :
              /\ a \notin Range(res.c.unknownPlatforms)
              /\ \A v \in Range(armPlatformsAliases[a]) :
                    /\ v \in Range(defaultARMPlatforms)
                    /\ v \notin Range(res.c.mainPlatforms)
                               \cup Range(res.c.powerPCPlatforms)
                               \cup Range(res.c.mipsPlatforms)
                               \cup Range(res.c.s390xPlatforms)

\* An alias token has been classified and its variants are ARM jobs.
C15_Witness ==
    /\ cfg.classifier = "exact"
    /\ spc = "dispatch"
    /\ cfg.cgo
    /\ \E i \in 1..Len(cfg.platforms) :
          /\ cfg.platforms[i] \in AliasTokens
          /\ \A v \in Range(armPlatformsAliases[cfg.platforms[i]]) :
                \E g \in 1..Len(res.pgroups) :
                    /\ res.pgroups[g].Platform = v
                    /\ res.pgroups[g].DockerImage[3] = "arm"

\* The family of a canonical platform of the exact-match classifier.
FamilyOf(p) ==
    IF p \in Range(defaultMainPlatforms) THEN "main"
    ELSE IF p \in Range(defaultARMPlatforms) THEN "arm"
    ELSE IF p \in Range(defaultPowerPCPlatforms) THEN "powerpc"
    ELSE IF p \in Range(defaultMIPSPlatforms) THEN "mips"
    ELSE "s390x"

\* The image reference as a function of cgo, toolchain version and family.
ExpectedImage(cgo, goVersion, family) ==
    <<"quay.io/prometheus/golang-builder", goVersion,
      IF cgo THEN family ELSE "base">>

\* C16: with cgo disabled every job uses the <version>-base image whatever the
\* family of its platform, and in every run the image of a job is a function
\* of the cgo setting, the toolchain version and the platform's family.
C16_ImageByCgoVersionFamily ==
    spc = "dispatch" =>
        \A g \in 1..Len(res.pgroups) :
            /\ ~cfg.cgo => res.pgroups[g].DockerImage =
                   <<"quay.io/prometheus/golang-builder", cfg.goVersion, "base">>
            /\ res.pgroups[g].DockerImage =
                   ExpectedImage(cfg.cgo, cfg.goVersion,
                                 IF cfg.classifier = "exact"
                                   THEN FamilyOf(res.pgroups[g].Platform)
                                   ELSE "main")

\* Jobs of two different families are dispatched with cgo disabled.
C16_Witness ==
    /\ spc = "dispatch"
    /\ cfg.classifier = "exact"
    /\ ~cfg.cgo
    /\ \E g, h \in 1..Len(res.pgroups) :
          FamilyOf(res.pgroups[g].Platform) # FamilyOf(res.pgroups[h].Platform)

\* Number of -static pieces the configuration itself carries: the extra
\* external-linker flags and the text of the ldflags template.
ConfiguredStatic == Count(cfg.ExtLDFlags, "-static") + Count(cfg.LDFlags, "-static")

\* C18 as stated: with static linking enabled the composed string does not
\* contain the static-link directive for darwin, solaris and illumos and does
\* contain it for any other target OS.
C18_NoDirectiveOnExcludedOS ==
    (spc \in {"second", "done"} /\ cfg.Static) =>
        IF cfg.goos \in {"darwin", "solaris", "illumos"}
          THEN Count(res.first.ldflags, "-static") = 0
          ELSE Count(res.first.ldflags, "-static") >= 1

\* C18, amended: with static linking enabled and a target OS other than
\* darwin, solaris and illumos the composed string contains the static-link
\* directive; for those three, and with static linking disabled, getLdflags
\* adds none: the string carries -static only as often as the configured
\* external-linker flags and the template do.
C18_DirectiveAddedByTargetOS ==
    spc \in {"second", "done"} =>
        IF cfg.Static /\ cfg.goos \notin {"darwin", "solaris", "illumos"}
          THEN Count(res.first.ldflags, "-static") >= 1
          ELSE Count(res.first.ldflags, "-static") = ConfiguredStatic

\* getLdflags has returned for illumos with static linking enabled and
\* nothing static configured: the string has no static-link directive.
C18_Witness ==
    /\ spc = "second"
    /\ cfg.Static
    /\ cfg.goos = "illumos"
    /\ ConfiguredStatic = 0
    /\ res.first.ldflags # << >>
    /\ Count(res.first.ldflags, "-static") = 0

\* Whether the text s ends with the text t.
HasSuffix(s, t) ==
    Len(t) <= Len(s) /\ SubSeq(s, Len(s) - Len(t) + 1, Len(s)) = t

\* C19: for a statically linked target OS with static linking enabled the
\* composed string holds the static-link directive exactly once: one
\* -extldflags directive that ends the string and carries the configured
\* external-linker flags in order and a single -static, none added when the
\* configured flags or the rendered template already have it, and a second
\* call returns the same string.
C19_DirectiveExactlyOnce ==
    (spc = "done" /\ cfg.Static
     /\ cfg.goos \notin {"darwin", "solaris", "illumos"}) =>
        /\ Count(res.first.ldflags, "-static") = 1
        /\ Count(res.first.ldflags, "-extldflags") = 1
        /\ HasSuffix(res.first.ldflags,
                     <<"-extldflags", " ", "'">>
                     \o Join([i \in 1..Len(cfg.ExtLDFlags) |->
                                 <<cfg.ExtLDFlags[i]>>])
                     \o (IF "-static" \in Range(cfg.ExtLDFlags) THEN << >>
                         ELSE IF cfg.ExtLDFlags = << >> THEN <<"-static">>
                         ELSE <<" ", "-static">>)
                     \o <<"'">>)
        /\ res.second = res.first

\* C17: in runBuild the linker flags are composed exactly once, before any
\* build command is issued, and every build command of the run carries that
\* one string.
C17_LdflagsComposedOnce ==
    cfg.command = "build" =>
        /\ spc \in {"b.checkpath", "b.ldflags"} =>
              res.calls = 0 /\ res.commands = << >>
        /\ res.commands # << >> =>
              /\ res.calls = 1
              /\ \A i \in 1..Len(res.commands) :
                    res.commands[i].ldflags = res.ldflags

\* Two build commands were issued at different times under a template that
\* renders the build date.
C17_Witness ==
    /\ cfg.command = "build"
    /\ "{{date}}" \in Range(cfg.LDFlags)
    /\ Len(res.commands) = 2
    /\ res.commands[1].at < res.commands[2].at

\* The build and container-runtime commands run so far.
Invoked == IF cfg.command = "build" THEN res.commands ELSE res.pulled

\* The jobs handed out so far.
Dispatched == IF cfg.command = "build" THEN res.commands ELSE res.pgroups

\* C20: a blank repository.path stops either command, and an ldflags template
\* that fails to parse or to execute stops runBuild, at a fatal exit reached
\* before any build or container command has run and before any job exists.
C20_FatalBeforeDispatch ==
    /\ TrimSpace(cfg.repoPath) = << >> =>
          spc \in {"checkpath", "b.checkpath", "fatal"}
    /\ (cfg.command = "build" /\ TrimSpace(cfg.LDFlags) # << >>
        /\ (ParseFails(cfg.LDFlags) \/ ExecuteFails(cfg.LDFlags))) =>
          spc \in {"b.checkpath", "b.ldflags", "fatal"}
    /\ (spc = "fatal" /\ res.cause \in {"repository.path", "parse", "execute"}) =>
          Invoked = << >> /\ Dispatched = << >>

\* runBuild has exited fatally on a template that does not execute.
C20_Witness ==
    /\ spc = "fatal"
    /\ cfg.command = "build"
    /\ res.cause = "execute"
    /\ ExecuteFails(cfg.LDFlags)

\* C21: with SOURCE_DATE_EPOCH set to a valid integer the host and user of the
\* template are the literal "reproducible" and the date is that epoch, so two
\* calls of getLdflags with one configuration return the same string whatever
\* the clock, the host name and the user were at each call.
C21_ReproducibleBuild ==
    (spc = "done" /\ ParseIntOK(cfg.SOURCE_DATE_EPOCH)) =>
        /\ res.second = res.first
        /\ \A i \in 1..Len(res.first.ldflags) :
              res.first.ldflags[i] \notin Hosts \cup Users \cup {"unknown-host"}
        /\ Count(res.first.ldflags, "reproducible") =
              Count(cfg.LDFlags, "{{host}}") + Count(cfg.LDFlags, "{{user}}")
        /\ Count(res.first.ldflags, "22") = Count(cfg.LDFlags, "{{date}}")

\* The second call ran later, on another host and under another user, with a
\* template that renders the host.
C21_Witness ==
    /\ spc = "done"
    /\ ParseIntOK(cfg.SOURCE_DATE_EPOCH)
    /\ "{{host}}" \in Range(cfg.LDFlags)
    /\ res.moved
    /\ res.now > 0
    /\ res.second.status = "ok"

\* Lexicographic order of kind lists by rank, a prefix first.
RECURSIVE LexLE(_, _)
LexLE(a, b) ==
    IF a = << >> THEN TRUE
    ELSE IF b = << >> THEN FALSE
    ELSE IF KindRank(Head(a)) # KindRank(Head(b))
      THEN KindRank(Head(a)) < KindRank(Head(b))
    ELSE LexLE(Tail(a), Tail(b))

\* Change a is not after change b: a change without kinds is after every
\* change that has kinds.
NotAfter(a, b) ==
    IF a = << >> THEN b = << >>
    ELSE IF b = << >> THEN TRUE
    ELSE LexLE(a, b)

\* C22: Changes.Sorted returns nil exactly when for all i < j change i is not
\* after change j in the order of kind lists.
C22_SortedIffOrdered ==
    (spc = "done" /\ "changes" \in DOMAIN cfg) =>
        (res.err = "nil" <=>
            \A i, j \in 1..Len(cfg.changes) :
                i < j => NotAfter(cfg.changes[i], cfg.changes[j]))

\* Sorted has accepted three changes: equal neighbours, then a change
\* without kinds.
C22_Witness ==
    /\ spc = "done"
    /\ "changes" \in DOMAIN cfg
    /\ res.err = "nil"
    /\ Len(cfg.changes) = 3
    /\ cfg.changes[1] = cfg.changes[2]
    /\ cfg.changes[1] # << >>
    /\ cfg.changes[3] = << >>

\* The positions of the header lines for the requested version whose date
\* exists.
ValidHeaders ==
    {i \in 1..Len(cfg.file) :
        /\ Header(cfg.file[i]).level \in {1, 2}
        /\ Header(cfg.file[i]).version = cfg.version
        /\ Header(cfg.file[i]).date[2] \in 1..12}

\* The position of the first header line for the requested version.
RequestedHeader ==
    CHOOSE i \in ValidHeaders : \A h \in ValidHeaders : i <= h

\* The position of the first header line of another version after the
\* requested header, or the end of the file.
SectionEnd ==
    LET others == {j \in (RequestedHeader + 1)..Len(cfg.file) :
                      /\ Header(cfg.file[j]).level \in {1, 2}
                      /\ Header(cfg.file[j]).version # cfg.version}
    IN  IF others = {} THEN Len(cfg.file) + 1
        ELSE CHOOSE j \in others : \A h \in others : j <= h

\* The lines of the requested version's section; a repeated header of the
\* version is no line of it.
Section ==
    SelectSeq(SubSeq(cfg.file, RequestedHeader + 1, SectionEnd - 1),
              LAMBDA l : Header(l).version # cfg.version)

RECURSIVE DropLeadingBlank(_)
DropLeadingBlank(lines) ==
    IF lines # << >> /\ Head(lines) = "" THEN DropLeadingBlank(Tail(lines))
    ELSE lines

\* C23: ReadEntry returns an error exactly when the file has no header line
\* for the requested version with a valid date; otherwise Changes are the
\* lines of that version's section that begin with "* [KINDS]", in file
\* order, and Text is the section without its leading blank lines.
C23_ReadEntryContract ==
    (spc = "done" /\ "file" \in DOMAIN cfg) =>
        /\ res.err # "nil" <=> ValidHeaders = {}
        /\ res.err = "nil" =>
              /\ res.Changes =
                    SelectSeq(Section,
                              LAMBDA l : l = "* [BUGFIX] Some fix.")
              /\ res.Text = DropLeadingBlank(Section)

\* C30: no line of the returned entry lies at or after the header of another
\* version that follows the requested header, whichever the level of the
\* headers.
C30_NoLineOfAnotherSection ==
    (spc = "done" /\ "file" \in DOMAIN cfg /\ res.err = "nil") =>
        \A k \in 1..Len(res.from) : res.from[k] < SectionEnd

\* The commands of a job in the order required: create, with a remote daemon
\* a copy of every listed entry but .build and of the module cache, start,
\* copy-out, remove.
JobPlan ==
    <<[command |-> "create", arg |-> cfg.Platform]>>
    \o (IF cfg.DOCKER_HOST
          THEN [i \in 1..Len(SelectSeq(cfg.files, LAMBDA f : f # ".build")) |->
                   [command |-> "cp",
                    arg |-> SelectSeq(cfg.files, LAMBDA f : f # ".build")[i]]]
               \o <<[command |-> "cp", arg |-> "/go/pkg/"]>>
          ELSE << >>)
    \o <<[command |-> "start", arg |-> ""],
         [command |-> "cp -a", arg |-> ".build"],
         [command |-> "rm", arg |-> ""]>>

\* C24: a job with a platform runs its commands in the order of the plan,
\* each only after every earlier one succeeded, stops at the first that fails
\* and returns its error, and returns success only after the whole plan; a
\* job with an empty platform runs no command and returns success.
C24_StepsInOrder ==
    "DOCKER_HOST" \in DOMAIN cfg =>
        /\ Len(res.log) <= Len(JobPlan)
        /\ \A i \in 1..Len(res.log) :
              /\ res.log[i].command = JobPlan[i].command
              /\ res.log[i].arg = JobPlan[i].arg
              /\ i < Len(res.log) => res.log[i].ok
        /\ \A i \in 1..Len(res.log) :
              ~res.log[i].ok => spc = "j.returned" /\ res.ret = res.log[i].command
        /\ (spc = "j.returned" /\ cfg.Platform # "") =>
              /\ res.ret = "nil" <=>
                    (Len(res.log) = Len(JobPlan) /\ res.log[Len(res.log)].ok)
              /\ res.ret # "running"
        /\ cfg.Platform = "" =>
              res.log = << >> /\ (spc = "j.returned" => res.ret = "nil")

\* A job on a remote daemon has run its whole plan in a directory that holds
\* .build and returned success.
C24_Witness ==
    /\ "DOCKER_HOST" \in DOMAIN cfg
    /\ spc = "j.returned"
    /\ cfg.DOCKER_HOST
    /\ ".build" \in Range(cfg.files)
    /\ Len(cfg.files) > 1
    /\ res.ret = "nil"
    /\ Len(res.log) = Len(JobPlan)

\* The names of the configured binaries.
ConfiguredNames == {"promu", "tool"}

\* C25: validateBinaryNames fails exactly when a requested name is not that
\* of a configured binary, and otherwise returns the configured binaries in
\* the order requested, one per name; in runBuild the failure is fatal before
\* any binary is built, and "all" builds every configured binary.
C25_ValidateBinaryNames ==
    (cfg.command = "build" /\ spc \in {"b.build", "success", "fatal"}
     /\ res.cause \notin {"repository.path", "parse", "execute",
                          "SOURCE_DATE_EPOCH"}) =>
        IF cfg.binariesString = <<"all">>
          THEN /\ res.binariesToBuild =
                     <<[Name |-> "promu", Path |-> "."],
                       [Name |-> "tool", Path |-> "./cmd/tool"]>>
               /\ res.cause # "validation"
               /\ spc = "success" =>
                     [i \in 1..Len(res.commands) |-> res.commands[i].binary]
                         = res.binariesToBuild
        ELSE IF \E i \in 1..Len(cfg.binariesString) :
                    cfg.binariesString[i] \notin ConfiguredNames
          THEN /\ spc = "fatal"
               /\ res.cause = "validation"
               /\ res.commands = << >>
        ELSE /\ res.cause # "validation"
             /\ Len(res.binariesToBuild) = Len(cfg.binariesString)
             /\ \A i \in 1..Len(cfg.binariesString) :
                   /\ res.binariesToBuild[i].Name = cfg.binariesString[i]
                   /\ res.binariesToBuild[i] \in Range(Binaries)

\* runBuild has built the two binaries in the order they were asked for,
\* which is not the order of the configuration.
C25_Witness ==
    /\ cfg.command = "build"
    /\ spc = "success"
    /\ cfg.binariesString = <<"tool", "promu">>
    /\ Len(res.commands) = 2
    /\ res.commands[1].binary.Name = "tool"

\* C26: in the regexp classifier the final platform list consists of exactly
\* the canonical platforms matched by at least one configured pattern, every
\* match of every pattern included, and is in ascending string order.
C26_AllMatchesSorted ==
    (spc = "dispatch" /\ cfg.classifier = "regexp") =>
        /\ Range(JobPlatforms) = {p \in Range(defaultPlatforms) : Matched(p)}
        /\ \A i, j \in 1..Len(JobPlatforms) :
              i < j => StrLess(Chars(JobPlatforms[i]), Chars(JobPlatforms[j]))

\* Two patterns were given in descending order and the first of them has
\* several matches.
C26_Witness ==
    /\ spc = "dispatch"
    /\ cfg.classifier = "regexp"
    /\ cfg.platforms = <<"windows", "linux/mips">>
    /\ Len(JobPlatforms) = 7

\* C27: for P >= 1 the index ranges of the threads 0..P-1 are pairwise
\* disjoint and cover the platform list: every position belongs to the range
\* of exactly one thread index, and a Build whose threads all succeeded has
\* built every platform in exactly one thread.
C27_RangesPartition ==
    ("P" \in DOMAIN cfg /\ cfg.P >= 1 /\ spc # "p.enter") =>
        /\ \A i \in 0..(cfg.n - 1) :
              Cardinality({p \in 0..(cfg.P - 1) :
                  LET r == ThreadRange(p, cfg.n, cfg.P)
                  IN  r.minb <= i /\ i < r.maxb}) = 1
        /\ \A p \in 0..(cfg.P - 1) :
              LET r == ThreadRange(p, cfg.n, cfg.P)
              IN  0 <= r.minb /\ r.minb <= r.maxb /\ r.maxb <= cfg.n
        /\ (spc = "p.returned" /\ cfg.thread = 0 - 1 /\ res.ret = "nil") =>
              \A i \in 0..(cfg.n - 1) :
                  Cardinality({p \in Threads : i \in res.built[p]}) = 1
        /\ (spc = "p.returned" /\ cfg.thread \in 0..(cfg.P - 1)
            /\ res.ret = "nil") =>
              res.own = {i \in 0..(cfg.n - 1) :
                            /\ cfg.thread * cfg.n <= i * cfg.P + cfg.P - 1
                            /\ i * cfg.P + cfg.P - 1 < (cfg.thread + 1) * cfg.n}

\* Three threads have built four platforms between them.
C27_Witness ==
    /\ "P" \in DOMAIN cfg
    /\ spc = "p.returned"
    /\ cfg.thread = 0 - 1
    /\ cfg.P = 3
    /\ cfg.n = 4
    /\ res.ret = "nil"
    /\ \A p \in Threads : res.built[p] # {}

\* C28: Build without a thread index and with P >= 1 starts its threads only
\* after the pull succeeded, returns only when all P threads are done, and
\* returns an error exactly when the pull failed or some thread returned an
\* error, whatever the order in which the threads complete.
C28_BuildWaitsAndReports ==
    ("P" \in DOMAIN cfg /\ cfg.thread = 0 - 1 /\ cfg.P >= 1) =>
        /\ (\E p \in Threads : res.tpc[p] # "idle") => res.pulled
        /\ \A p \in Threads : res.tpc[p] # "idle" => p < cfg.P
        /\ (spc = "p.returned" /\ res.pulled) =>
              \A p \in 0..(cfg.P - 1) : res.tpc[p] = "done"
        /\ spc = "p.returned" =>
              /\ res.ret \in {"nil", "err"}
              /\ res.ret = "err" <=>
                    (~res.pulled \/ \E p \in 0..(cfg.P - 1) : res.terr[p])

\* Build of three threads has returned the error of the one that failed.
C28_Witness ==
    /\ "P" \in DOMAIN cfg
    /\ spc = "p.returned"
    /\ cfg.thread = 0 - 1
    /\ cfg.P = 3
    /\ res.pulled
    /\ res.terr[0]
    /\ ~res.terr[1]
    /\ res.built[2] # {}
    /\ res.ret = "err"

\* C29: with a thread index p >= 0 and any --parallelism P >= 0, buildThread
\* never panics (no division by zero, no slice out of range), and an index
\* p >= P builds nothing and returns success.
C29_ThreadIndexAlwaysValid ==
    ("P" \in DOMAIN cfg /\ cfg.thread >= 0) =>
        /\ spc # "p.panic"
        /\ (spc = "p.returned" /\ cfg.thread >= cfg.P) =>
              res.ret = "nil" /\ res.own = {}
====
